---- MODULE Spec2Model ----
(***************************************************************************)
(* The request-dispatch core of the hummingbird proxy direct client        *)
(* (package client): the quorum dispatcher quorumResponse and the          *)
(* first-response dispatcher firstResponse, with the goroutines they       *)
(* spawn and the channels those goroutines use; the proxy operations that  *)
(* build the sub-requests; and PutObject's pipes and transfer goroutine.   *)
(* Each part has its own specification over the shared initial state:      *)
(* SpecQ (quorumResponse), SpecF (firstResponse), SpecOps (the operations, *)
(* which take a dispatcher's result as given) and SpecP (PutObject's       *)
(* transfer running beside quorumResponse).                                *)
(***************************************************************************)
EXTENDS Integers, Sequences, FiniteSets, TLC

\* Largest number of sub-requests handed to a dispatcher in one call.
MaxReqs == 3

\* Status codes a backend answers with.  net/http accepts any three-digit
\* code, so one code above the 5xx class is kept: quorumResponse guards its
\* class table against it (class <= 5).
Statuses == {200, 404, 500, 503, 600}

\* What c.client.Do(req) yields: a response (err == nil) with its StatusCode,
\* or a transport failure (err != nil, no response).
Response(s) == [err |-> FALSE, StatusCode |-> s]
TransportFailure == [err |-> TRUE, StatusCode |-> 0]
Outcomes == {Response(s) : s \in Statuses} \cup {TransportFailure}

\* The outcomes of a read sub-request: firstResponse tells apart only a 2xx
\* response, any other response, and a transport failure.
ReadStatuses == {200, 404, 503}
ReadOutcomes == {Response(s) : s \in ReadStatuses} \cup {TransportFailure}

VARIABLES
    \* ---- quorumResponse ----
    qpc,              \* dispatcher position: "idle", "range" (blocked in the
                      \* for-range over statusCodes), "returned"
    reqs,             \* len(reqs) of the call
    quorum,           \* the local quorum
    responseClasses,  \* the local class table, indices 0..5
    cancel,           \* TRUE once the deferred close(cancel) has run
    qret,             \* the value returned (0 before the return)
    gpc,              \* goroutine i: "Do", "select" (blocked in the select), "done"
    status,           \* goroutine i's local status
    outcome,          \* goroutine i's result of c.client.Do (NoOutcome before)
    bodyClosed,       \* goroutines whose resp.Body.Close() has run
    arrived           \* history: what the dispatcher received, in order, as
                      \* records [from |-> goroutine, status |-> value sent]

    ,
    \* ---- firstResponse ----
    fpc,              \* dispatcher position: "idle", "wait" (in the select of
                      \* the current loop iteration), "returned"
    freqs,            \* len(reqs) of the call
    launched,         \* how many goroutines the loop has started
    timer,            \* ticks elapsed since time.After was armed
    fg,               \* goroutine i: "new" (not started), "Do", "select", "done"
    fresp,            \* goroutine i's result of c.client.Do
    resp,             \* the named result resp
    returned,         \* TRUE once the deferred close(returned) has run
    rcancel,          \* goroutines that have closed their r.Cancel channel
    clock,            \* history: ticks elapsed since the call
    flog              \* history: launches, receptions and timeouts, in order,
                      \* each with the clock at which it happened

    ,
    \* ---- the proxy operations (PutAccount ... DeleteObject) ----
    op,               \* the operation called ("none" before the call)
    headers,          \* the headers parameter: key |-> sequence of values
    opc,              \* its position: "idle", "loop" (in the loop over the
                      \* ring's devices), "dispatch" (in the dispatcher),
                      \* "returned", "fault" (a run-time panic)
    partition,        \* the partition the operation's own ring gave
    parentPartition,  \* the partition the parent tier's ring gave
    nodes,            \* len(Ring.GetNodes(partition)) of the operation's ring
    parentDevices,    \* accountDevices / containerDevices: the parent ring's
                      \* GetNodes, a sequence of device records
    badUrl,           \* device indices for which http.NewRequest fails
    idx,              \* the loop's index i, 1-based
    oreqs,            \* the local reqs: the requests built so far
    issued,           \* history: per built request, how often Do was called
    dres,             \* history: what the dispatcher returned (a response
                      \* or Nil from firstResponse; a status, held in
                      \* StatusCode, from quorumResponse)
    oret              \* the values returned

    ,
    \* ---- PutObject's pipes and transfer goroutine ----
    ppc,              \* PutObject's position: "idle", "running" (the loop is
                      \* done and the transfer goroutine started; in or about
                      \* to enter quorumResponse), "returned"
    pipes,            \* how many pipes the loop created (one per device)
    writers,          \* the local writers: the pipes of the requests built
    accepted,         \* chunks io.Copy has read from src so far
    tpc,              \* transfer goroutine: "new", "read" (in src.Read),
                      \* "write" (in the write to writer wk), "close",
                      \* "done", "panic"
    wk,               \* the MultiWriter's writer being written to
    received,         \* per pipe, the chunks its read end has taken
    tclosed,          \* pipes whose write end the transfer goroutine closed
    dclosed,          \* pipes whose ends the deferred Close calls closed
    copyEnd,          \* why io.Copy returned: "none", "EOF", "srcerr",
                      \* "writeerr"
    failed,           \* history: a pipe write has failed
    lateWrites,       \* history: pipe writes that succeeded after a failure
    pret              \* the value PutObject returned

    ,
    \* ---- mkquery and the account-scoped client directClient ----
    cpc,              \* "idle", "called", "returned"
    cmethod,          \* the method called ("mkquery" for a call of mkquery)
    ccode,            \* the status the ProxyDirectClient operation returned
    cbody,            \* what the body r of a listing holds
    climit,           \* the limit parameter of a listing
    coptions,         \* the options map: key |-> value, both strings
    cquery,           \* the string mkquery returned
    cret,             \* what the method returned
    cstream           \* the body of the response the operation chose:
                      \* "none", "open", "closed", "caller" (handed over)

    ,
    \* ---- ReplicationManager (objectserver) ----
    constructed,      \* NewReplicationManager has returned
    limitPerDisk,     \* capacity of each devSem channel
    limitOverall,     \* capacity of totalSem
    devSem,           \* device |-> elements in its channel, for the devices
                      \* that have an entry in the map
    totalSem,         \* elements in the totalSem channel
    lock,             \* Unlocked, or the session whose call holds r.lock
    rpc,              \* session |-> position of its Begin or Done call
    device,           \* session |-> the device it names
    timeoutTick,      \* session |-> a tick waits in timeoutTimer.C
    loopTick,         \* session |-> a tick waits in loopTimer.C
    heldDev,          \* history: session |-> sends less receives its Begin
                      \* did on devSem
    heldTotal         \* history: session |-> sends its Begin did on totalSem

    ,
    \* ---- Replicator.objRepConnHandler (objectserver) ----
    hpc,              \* position in the handler
    written,          \* the statuses passed to writer.WriteHeader, in order
    hijacked,         \* Hijack has handed over the connection
    connClosed,       \* the deferred conn.Close() has run
    brr,              \* the BeginReplicationRequest received
    began,            \* "none", or what Begin returned: "true", "false"
    doneCalls,        \* history: the devices Done was called with
    hashOps,          \* history: calls of GetHashes
    nreq,             \* SyncFileRequests handled so far
    sfr,              \* the SyncFileRequest being handled
    onDisk,           \* what the disk holds for sfr: whether its file
                      \* exists, the names of the data and meta file
    responses,        \* history: the messages sent for sfr, with the
                      \* result of each SendMessage
    fileEvents,       \* history: the file operations done for sfr
    got,              \* bytes CopyN received for sfr
    cerr,             \* what the closure returned: "none", "nil",
                      \* "replicationDone", "error"
    exitOn            \* why the session loop ended: "none",
                      \* "replicationDone", "error"

    ,
    \* ---- ProxyContextMiddleware and the account handlers (proxyserver) ----
    xpc,              \* "idle", "forwarded" (m.next.ServeHTTP is called),
                      \* "routed" (a handler is called), "responded"
    xreq,             \* the request: valid, path, method
    clientHeader,     \* history: request.Header as the client sent it
    reqHeader,        \* request.Header
    respHeader,       \* writer.Header()
    wire,             \* the status and the headers written to the client
    ctx,              \* "nil", or "set": the request carries a ProxyContext
    authorize,        \* ctx.Authorize: "nil", "allows", "denies"
    prefetched,       \* history: backend operations of the middleware
    backendOps,       \* history: backend operations of the handler
    backendHeader     \* history: the headers the handler's backend
                      \* operation returned

qvars == <<qpc, reqs, quorum, responseClasses, cancel, qret, gpc, status,
           outcome, bodyClosed, arrived>>

fvars == <<fpc, freqs, launched, timer, fg, fresp, resp, returned, rcancel,
           clock, flog>>

ovars == <<op, headers, opc, partition, parentPartition, nodes, parentDevices, badUrl,
           idx, oreqs, issued, dres, oret>>

pvars == <<ppc, pipes, writers, accepted, tpc, wk, received,
           tclosed, dclosed, copyEnd, failed, lateWrites, pret>>

cvars == <<cpc, cmethod, ccode, cbody, climit, coptions, cquery, cret, cstream>>

rvars == <<constructed, limitPerDisk, limitOverall, devSem, totalSem, lock, rpc,
           device, timeoutTick, loopTick, heldDev, heldTotal>>

hvars == <<hpc, written, hijacked, connClosed, brr, began, doneCalls, hashOps,
           nreq, sfr, onDisk, responses, fileEvents, got, cerr, exitOn>>

xvars == <<xpc, xreq, clientHeader, reqHeader, respHeader, wire, ctx, authorize,
           prefetched, backendOps, backendHeader>>

vars == <<qvars, fvars, ovars, pvars, cvars, rvars, hvars, xvars>>

NoOutcome == [err |-> TRUE, StatusCode |-> -1]

\* A *http.Response as firstResponse passes it around: which goroutine's
\* request it answers and its StatusCode; Nil is the nil pointer.
Nil == [from |-> 0, StatusCode |-> 0]

\* Replication sessions that call Begin, and the greatest limit a
\* ReplicationManager is made with.
MaxSessions == 2
MaxLimit == 2
Sessions == 1..MaxSessions

\* r.lock when no call holds it.
Unlocked == 0

\* The zero values of BeginReplicationRequest and SyncFileRequest (the
\* fields the handler reads), and of what the disk holds for a request.
NoHeader == [k \in {} |-> "client"]
NoHTTPRequest == [valid |-> FALSE, path |-> "", method |-> ""]
NoPrefetch == [account |-> <<>>, created |-> FALSE, container |-> <<>>]
NoWire == [status |-> 0, header |-> NoHeader]
NoBegin == [Device |-> "none", NeedHashes |-> FALSE]
NoRequest == [Done |-> FALSE, Ping |-> FALSE, Check |-> FALSE,
              Path |-> [ext |-> "", hashLen |-> 0],
              Name |-> 0, Xattrs |-> "", Size |-> 0]
NoDisk == [exists |-> FALSE, dataFile |-> [ts |-> 0, ext |-> "data"],
           metaFile |-> [ts |-> 0, ext |-> "data"]]

\* The discrete length of time.Second: time.After fires after this many ticks.
TicksPerSecond == 2

\* status := 500 (the value a goroutine sends when Do fails)
DefaultStatusUnavailable == 500 + 3
DefaultStatus == 500

\* quorum := int(math.Ceil(float64(len(reqs)) / 2.0))
QuorumFloor(n) == n \div 2
Quorum(n) == (n + 1) \div 2

\* class := status / 100
Class(s) == s \div 100

\* if class <= 5 { responseClasses[class]++ ... }
Counted(s) == Class(s) <= 5

Init ==
    /\ qpc = "idle"
    /\ reqs = 0
    /\ quorum = 0
    /\ responseClasses = [c \in 0..5 |-> 0]
    /\ cancel = FALSE
    /\ qret = 0
    /\ gpc = <<>>
    /\ status = <<>>
    /\ outcome = <<>>
    /\ bodyClosed = {}
    /\ arrived = <<>>
    /\ fpc = "idle"
    /\ freqs = 0
    /\ launched = 0
    /\ timer = 0
    /\ fg = <<>>
    /\ fresp = <<>>
    /\ resp = Nil
    /\ returned = FALSE
    /\ rcancel = {}
    /\ clock = 0
    /\ flog = <<>>
    /\ op = "none"
    /\ headers = [k \in {} |-> <<>>]
    /\ opc = "idle"
    /\ partition = 0
    /\ parentPartition = 0
    /\ nodes = 0
    /\ parentDevices = <<>>
    /\ badUrl = {}
    /\ idx = 0
    /\ oreqs = <<>>
    /\ issued = <<>>
    /\ dres = [from |-> 0, StatusCode |-> 0]
    /\ oret = [body |-> 0, header |-> 0, status |-> 0]
    /\ ppc = "idle"
    /\ pipes = 0
    /\ writers = <<>>
    /\ accepted = 0
    /\ tpc = "new"
    /\ wk = 0
    /\ received = <<>>
    /\ tclosed = {}
    /\ dclosed = {}
    /\ copyEnd = "none"
    /\ failed = FALSE
    /\ lateWrites = 0
    /\ pret = 0
    /\ cpc = "idle"
    /\ cmethod = "none"
    /\ ccode = 0
    /\ cbody = "none"
    /\ climit = 0
    /\ coptions = [k \in {} |-> <<>>]
    /\ cquery = <<>>
    /\ cret = [err |-> [HTTPError |-> 0], list |-> <<>>, headers |-> FALSE]
    /\ cstream = "none"
    /\ constructed = FALSE
    /\ limitPerDisk = 0
    /\ limitOverall = 0
    /\ devSem = [d \in {} |-> 0]
    /\ totalSem = 0
    /\ lock = Unlocked
    /\ rpc = [s \in Sessions |-> "idle"]
    /\ device = [s \in Sessions |-> "none"]
    /\ timeoutTick = [s \in Sessions |-> FALSE]
    /\ loopTick = [s \in Sessions |-> FALSE]
    /\ heldDev = [s \in Sessions |-> 0]
    /\ heldTotal = [s \in Sessions |-> 0]
    /\ hpc = "idle"
    /\ written = <<>>
    /\ hijacked = FALSE
    /\ connClosed = FALSE
    /\ brr = NoBegin
    /\ began = "none"
    /\ doneCalls = <<>>
    /\ hashOps = 0
    /\ nreq = 0
    /\ sfr = NoRequest
    /\ onDisk = NoDisk
    /\ responses = <<>>
    /\ fileEvents = <<>>
    /\ got = 0
    /\ cerr = "none"
    /\ exitOn = "none"
    /\ xpc = "idle"
    /\ xreq = NoHTTPRequest
    /\ clientHeader = NoHeader
    /\ reqHeader = NoHeader
    /\ respHeader = NoHeader
    /\ wire = NoWire
    /\ ctx = "nil"
    /\ authorize = "nil"
    /\ prefetched = NoPrefetch
    /\ backendOps = <<>>
    /\ backendHeader = NoHeader

\* quorumResponse(reqs...) up to the for-range: the channels are made, one
\* goroutine per request is started, quorum and the class table are set.
QuorumCall(n) ==
    /\ qpc = "idle"
    /\ reqs' = n
    /\ gpc' = [i \in 1..n |-> "Do"]
    /\ status' = [i \in 1..n |-> DefaultStatus]
    /\ outcome' = [i \in 1..n |-> NoOutcome]
    /\ quorum' = Quorum(n)
    /\ responseClasses' = [c \in 0..5 |-> 0]
    /\ qpc' = "range"
    /\ UNCHANGED <<cancel, qret, bodyClosed, arrived>>
    /\ UNCHANGED <<fvars, ovars, pvars, cvars, rvars, hvars, xvars>>

\* resp.Body.Close() after a successful Do
BodyCloseSkipped(closed, i) == closed
BodyClose(closed, i) == closed \cup {i}

\* Goroutine i: c.client.Do(req) completes with outcome o; on success the
\* status is taken from the response and the body is closed; the goroutine
\* then blocks in its select.
ClientDo(i, o) ==
    /\ qpc # "idle"
    /\ i \in 1..reqs
    /\ gpc[i] = "Do"
    /\ outcome' = [outcome EXCEPT ![i] = o]
    /\ IF o.err
         THEN UNCHANGED <<status, bodyClosed>>
         ELSE /\ status' = [status EXCEPT ![i] = o.StatusCode]
              /\ bodyClosed' = BodyClose(bodyClosed, i)
    /\ gpc' = [gpc EXCEPT ![i] = "select"]
    /\ UNCHANGED <<qpc, reqs, quorum, responseClasses, cancel, qret, arrived>>
    /\ UNCHANGED <<fvars, ovars, pvars, cvars, rvars, hvars, xvars>>

\* The status the dispatcher returns when a class reaches quorum: the loop
\* variable, i.e. the status just received.
ReturnedStatusFirstOfClass(s, seen) ==
    LET same == {k \in 1..Len(seen) : Class(seen[k].status) = Class(s)}
    IN  IF same = {} THEN s
        ELSE seen[CHOOSE k \in same : \A m \in same : k <= m].status
ReturnedStatus(s, seen) == s

\* Whether the class count just incremented ends the loop.
ReachedStrict(n, q) == n > q
ReachedOffByOne(n, q) == n + 1 >= q
Reached(n, q) == n >= q

\* One iteration of `for status := range statusCodes`: goroutine i's send on
\* the unbuffered channel meets the dispatcher's receive; the class is
\* counted, and when it reaches quorum the dispatcher returns the status and
\* the deferred close(cancel) runs.
Receive(i) ==
    /\ qpc = "range"
    /\ i \in 1..reqs
    /\ gpc[i] = "select"
    /\ gpc' = [gpc EXCEPT ![i] = "done"]
    /\ arrived' = Append(arrived, [from |-> i, status |-> status[i]])
    /\ LET s == status[i]
           class == Class(s)
       IN  IF Counted(s)
             THEN /\ responseClasses' =
                        [responseClasses EXCEPT ![class] = @ + 1]
                  /\ IF Reached(responseClasses[class] + 1, quorum)
                       THEN /\ qpc' = "returned"
                            /\ qret' = ReturnedStatus(s, arrived)
                            /\ cancel' = TRUE
                       ELSE UNCHANGED <<qpc, qret, cancel>>
             ELSE UNCHANGED <<responseClasses, qpc, qret, cancel>>
    /\ UNCHANGED <<reqs, quorum, status, outcome, bodyClosed>>
    /\ UNCHANGED <<fvars, ovars, pvars, cvars, rvars, hvars, xvars>>

\* Goroutine i's select takes `case <-cancel` (possible once cancel is closed).
Cancelled(i) ==
    /\ i \in 1..reqs
    /\ gpc[i] = "select"
    /\ cancel
    /\ gpc' = [gpc EXCEPT ![i] = "done"]
    /\ UNCHANGED <<qpc, reqs, quorum, responseClasses, cancel, qret, status,
                   outcome, bodyClosed, arrived>>
    /\ UNCHANGED <<fvars, ovars, pvars, cvars, rvars, hvars, xvars>>

NextQ ==
    \/ \E n \in 1..MaxReqs : QuorumCall(n)
    \/ \E i \in 1..MaxReqs, o \in Outcomes : ClientDo(i, o)
    \/ \E i \in 1..MaxReqs : Receive(i)
    \/ \E i \in 1..MaxReqs : Cancelled(i)

SpecQ == Init /\ [][NextQ]_vars

\* The scheduling the dispatcher's goroutines run under: c.client.Do returns
\* (the client's Timeout bounds it) and a goroutine whose select has a ready
\* case takes one.
FairSpecQ ==
    /\ SpecQ
    /\ \A i \in 1..MaxReqs :
          /\ WF_vars(\E o \in Outcomes : ClientDo(i, o))
          /\ WF_vars(Cancelled(i))

(***************************************************************************)
(* firstResponse                                                           *)
(***************************************************************************)

\* What a goroutine offers on the success channel: the response, or nil when
\* Do failed (response = nil).
Offered(i, o) == IF o.err THEN Nil ELSE [from |-> i, StatusCode |-> o.StatusCode]

\* if resp != nil && resp.StatusCode/100 == 2 { return resp }
EndsSearchOnAnyResponse(r) == r # Nil
EndsSearch(r) == r # Nil /\ r.StatusCode \div 100 = 2

\* case <-time.After(time.Second): ready once a second has elapsed
TimerFiredAtOnce(t) == TRUE
TimerFired(t) == t >= TicksPerSecond

\* for _, req := range reqs: whether another request is left to start
MoreToLaunch(l, n) == l < n

\* firstResponse(reqs...) through the first `go func`: the channels are
\* made, the first goroutine is started and the dispatcher enters its select.
FirstCall(n) ==
    /\ fpc = "idle"
    /\ freqs' = n
    /\ fg' = [i \in 1..n |-> IF i = 1 THEN "Do" ELSE "new"]
    /\ fresp' = [i \in 1..n |-> NoOutcome]
    /\ launched' = 1
    /\ timer' = 0
    /\ fpc' = "wait"
    /\ flog' = <<[ev |-> "launch", i |-> 1, code |-> 0, at |-> clock]>>
    /\ UNCHANGED <<resp, returned, rcancel, clock>>
    /\ UNCHANGED <<qvars, ovars, pvars, cvars, rvars, hvars, xvars>>

\* Goroutine i: c.client.Do(r) completes with outcome o; the goroutine then
\* blocks in its select.
ClientDoF(i, o) ==
    /\ i \in 1..freqs
    /\ fg[i] = "Do"
    /\ fresp' = [fresp EXCEPT ![i] = o]
    /\ fg' = [fg EXCEPT ![i] = "select"]
    /\ UNCHANGED <<fpc, freqs, launched, timer, resp, returned, rcancel,
                   clock, flog>>
    /\ UNCHANGED <<qvars, ovars, pvars, cvars, rvars, hvars, xvars>>

\* The dispatcher's select takes `case resp = <-success` from goroutine i.
\* A 2xx response is returned; otherwise the loop goes on: the next goroutine
\* is started and a new select entered, or, the requests being used up,
\* nil is returned.  The deferred close(returned) runs on either return.
Success(i) ==
    /\ fpc = "wait"
    /\ i \in 1..freqs
    /\ fg[i] = "select"
    /\ LET r == Offered(i, fresp[i])
           e == [ev |-> "recv", i |-> i, code |-> r.StatusCode, at |-> clock]
       IN  IF EndsSearch(r)
             THEN /\ resp' = r
                  /\ fpc' = "returned"
                  /\ returned' = TRUE
                  /\ fg' = [fg EXCEPT ![i] = "done"]
                  /\ flog' = Append(flog, e)
                  /\ UNCHANGED <<launched, timer>>
             ELSE IF MoreToLaunch(launched, freqs)
                    THEN /\ resp' = r
                         /\ fg' = [fg EXCEPT ![i] = "done",
                                             ![launched + 1] = "Do"]
                         /\ launched' = launched + 1
                         /\ timer' = 0
                         /\ flog' = flog \o <<e, [ev |-> "launch", i |-> launched + 1,
                                                  code |-> 0, at |-> clock]>>
                         /\ UNCHANGED <<fpc, returned>>
                    ELSE /\ resp' = Nil
                         /\ fpc' = "returned"
                         /\ returned' = TRUE
                         /\ fg' = [fg EXCEPT ![i] = "done"]
                         /\ flog' = Append(flog, e)
                         /\ UNCHANGED <<launched, timer>>
    /\ UNCHANGED <<freqs, fresp, rcancel, clock>>
    /\ UNCHANGED <<qvars, ovars, pvars, cvars, rvars, hvars, xvars>>

\* The dispatcher's select takes `case <-time.After(time.Second)`: the loop
\* goes on as after an unusable response.
Timeout ==
    /\ fpc = "wait"
    /\ TimerFired(timer)
    /\ LET e == [ev |-> "timeout", i |-> 0, code |-> 0, at |-> clock]
       IN  IF MoreToLaunch(launched, freqs)
             THEN /\ fg' = [fg EXCEPT ![launched + 1] = "Do"]
                  /\ launched' = launched + 1
                  /\ timer' = 0
                  /\ flog' = flog \o <<e, [ev |-> "launch", i |-> launched + 1,
                                           code |-> 0, at |-> clock]>>
                  /\ UNCHANGED <<fpc, resp, returned>>
             ELSE /\ resp' = Nil
                  /\ fpc' = "returned"
                  /\ returned' = TRUE
                  /\ flog' = Append(flog, e)
                  /\ UNCHANGED <<fg, launched, timer>>
    /\ UNCHANGED <<freqs, fresp, rcancel, clock>>
    /\ UNCHANGED <<qvars, ovars, pvars, cvars, rvars, hvars, xvars>>

\* Time passes while the dispatcher waits in its select and no goroutine is
\* offering a response (an offer is taken at once by the waiting select).
Tick ==
    /\ fpc = "wait"
    /\ timer < TicksPerSecond
    /\ \A i \in 1..freqs : fg[i] # "select"
    /\ timer' = timer + 1
    /\ clock' = clock + 1
    /\ UNCHANGED <<fpc, freqs, launched, fg, fresp, resp, returned, rcancel, flog>>
    /\ UNCHANGED <<qvars, ovars, pvars, cvars, rvars, hvars, xvars>>

\* Goroutine i's select takes `case <-returned` and closes its cancel channel.
ReturnedObserved(i) ==
    /\ i \in 1..freqs
    /\ fg[i] = "select"
    /\ returned
    /\ rcancel' = rcancel \cup {i}
    /\ fg' = [fg EXCEPT ![i] = "done"]
    /\ UNCHANGED <<fpc, freqs, launched, timer, fresp, resp, returned, clock,
                   flog>>
    /\ UNCHANGED <<qvars, ovars, pvars, cvars, rvars, hvars, xvars>>

NextF ==
    \/ \E n \in 1..MaxReqs : FirstCall(n)
    \/ \E i \in 1..MaxReqs, o \in ReadOutcomes : ClientDoF(i, o)
    \/ \E i \in 1..MaxReqs : Success(i)
    \/ Timeout
    \/ Tick
    \/ \E i \in 1..MaxReqs : ReturnedObserved(i)

SpecF == Init /\ [][NextF]_vars

(***************************************************************************)
(* The proxy operations: each builds one sub-request per device of its     *)
(* ring's GetNodes(partition) and hands them to a dispatcher.              *)
(***************************************************************************)

AccountOps == {"PutAccount", "PostAccount", "GetAccount", "HeadAccount",
               "DeleteAccount"}
ContainerOps == {"PutContainer", "PostContainer", "GetContainer",
                 "HeadContainer", "DeleteContainer"}
ObjectOps == {"PutObject", "PostObject", "GetObject", "GrepObject",
              "HeadObject", "DeleteObject"}
Ops == AccountOps \cup ContainerOps \cup ObjectOps

\* The operations that end in c.firstResponse(reqs...); the others end in
\* c.quorumResponse(reqs...).
FirstOps == {"GetAccount", "HeadAccount", "GetContainer", "HeadContainer",
             "GetObject", "GrepObject", "HeadObject"}
QuorumOps == Ops \ FirstOps

\* The read operations that return resp.Body (the HEADs return no body).
BodyOps == {"GetAccount", "GetContainer", "GetObject", "GrepObject"}

\* The operations whose loop holds `if err != nil { continue }` after
\* http.NewRequest; the others write `req, _ := http.NewRequest(...)`.
ChecksErr(o) ==
    o \in {"HeadAccount", "HeadContainer", "PutObject", "GetObject",
           "GrepObject", "HeadObject"}

\* The tier whose partition and devices an operation's parameters carry
\* (accountPartition/accountDevices, containerPartition/containerDevices).
ParentTier(o) ==
    IF o \in {"PutContainer", "DeleteContainer"} THEN "Account"
    ELSE IF o \in {"PutObject", "PostObject", "DeleteObject"} THEN "Container"
    ELSE "none"

\* The partitions a ring hands out.
Partitions == {0, 1}

\* The parent ring's GetNodes: m device records, each with its own address
\* and device name.
RingDevices(m) == [j \in 1..m |-> [Ip |-> 10 + j, Port |-> 6000 + j, Device |-> 20 + j]]

\* The X-<Parent>-Partition, X-<Parent>-Host and X-<Parent>-Device headers of
\* a request; NoHeaders for a request of an operation without a parent tier.
NoHeaders == [Tier |-> "none", Partition |-> -1, Host |-> <<>>, Device |-> -1]
ParentHeaders(tier, pp, d) ==
    [Tier |-> tier, Partition |-> pp, Host |-> <<d.Ip, d.Port>>, Device |-> d.Device]

\* accountDevices[i] / containerDevices[i]: the index used is the loop's
\* index over the operation's own ring, whatever number of requests has been
\* built so far.
ParentIndexOfRequest(i, built) == built + 1
ParentIndex(i, built) == i

\* The header collections a caller passes: none, a key with one value, a key
\* with two values, a Content-Type.  GrepObject takes no headers.
NoCallerHeaders == [k \in {} |-> <<>>]
CallerHeaders ==
    {NoCallerHeaders,
     [k \in {"X-Custom"} |-> <<"a">>],
     [k \in {"X-Custom"} |-> <<"a", "b">>],
     [k \in {"Content-Type"} |-> <<"text/plain">>]}

\* for key := range headers { req.Header.Set(key, headers.Get(key)) }
\* Get gives the first value of the key, Set makes it the key's only value.
CopyHeaders(h) == [k \in DOMAIN h |-> <<h[k][1]>>]

\* req.Header.Set(k, v)
HeaderSet(h, k, v) == [x \in DOMAIN h \cup {k} |-> IF x = k THEN <<v>> ELSE h[x]]

\* The headers of a request other than the parent headers: the caller's,
\* copied, then Content-Type set by PutObject and PostObject and Expect set
\* by PutObject.
RequestHeaders(o, h) ==
    LET copied == CopyHeaders(h)
        typed == IF o \in {"PutObject", "PostObject"}
                   THEN HeaderSet(copied, "Content-Type", "application/octet-stream")
                   ELSE copied
    IN  IF o = "PutObject" THEN HeaderSet(typed, "Expect", "100-Continue") ELSE typed

\* Indexing a slice outside 0..len-1 panics.
InRange(i, s) == i \in 1..Len(s)

\* The operation o is called; its ring gives partition p and n devices, the
\* caller passes the parent partition pp and m parent devices, and
\* http.NewRequest fails for the devices in bad.
OpCall(o, n, m, bad, p, pp, h) ==
    /\ opc = "idle"
    /\ o = "GrepObject" => h = NoCallerHeaders
    /\ headers' = h
    /\ ParentTier(o) = "none" => (m = 0 /\ pp = 0)
    /\ ParentTier(o) # "none" => m >= 1
    /\ op' = o
    /\ opc' = "loop"
    /\ partition' = p
    /\ parentPartition' = pp
    /\ nodes' = n
    /\ parentDevices' = RingDevices(m)
    /\ badUrl' = bad
    /\ idx' = 1
    /\ oreqs' = <<>>
    /\ issued' = <<>>
    /\ UNCHANGED <<dres, oret>>
    /\ UNCHANGED <<qvars, fvars, pvars, cvars, rvars, hvars, xvars>>

\* One iteration of `for i, device := range Ring.GetNodes(partition)`.
\* When http.NewRequest fails, an operation that checks err goes on with the
\* next device; one that drops err holds a nil req, which is dereferenced
\* (req.Header.Set in the loop, or r.Cancel / client.Do in the dispatcher's
\* goroutine): a nil-pointer panic.  A request of a child-tier write gets the
\* parent headers from the parent device at the loop's index: a panic when
\* that index is out of range.
BuildRequest ==
    /\ opc = "loop"
    /\ idx <= nodes
    /\ IF idx \in badUrl
         THEN IF ChecksErr(op)
                THEN /\ idx' = idx + 1
                     /\ UNCHANGED <<opc, oreqs, issued>>
                ELSE /\ opc' = "fault"
                     /\ UNCHANGED <<idx, oreqs, issued>>
         ELSE IF ParentTier(op) = "none"
                THEN /\ oreqs' = Append(oreqs, [dev |-> idx, hdr |-> NoHeaders,
                                                  headers |-> RequestHeaders(op, headers)])
                     /\ issued' = Append(issued, 0)
                     /\ idx' = idx + 1
                     /\ UNCHANGED opc
                ELSE LET j == ParentIndex(idx, Len(oreqs))
                     IN  IF InRange(j, parentDevices)
                           THEN /\ oreqs' = Append(oreqs,
                                       [dev |-> idx,
                                        hdr |-> ParentHeaders(ParentTier(op),
                                                    parentPartition, parentDevices[j]),
                                        headers |-> RequestHeaders(op, headers)])
                                /\ issued' = Append(issued, 0)
                                /\ idx' = idx + 1
                                /\ UNCHANGED opc
                           ELSE /\ opc' = "fault"
                                /\ UNCHANGED <<idx, oreqs, issued>>
    /\ UNCHANGED <<op, headers, partition, parentPartition, nodes, parentDevices, badUrl, dres, oret>>
    /\ UNCHANGED <<qvars, fvars, pvars, cvars, rvars, hvars, xvars>>

\* The loop is over: the dispatcher is called with the requests built.
Dispatch ==
    /\ opc = "loop"
    /\ idx > nodes
    /\ opc' = "dispatch"
    /\ UNCHANGED <<op, headers, partition, parentPartition, nodes, parentDevices, badUrl,
                   idx, oreqs, issued, dres, oret>>
    /\ UNCHANGED <<qvars, fvars, pvars, cvars, rvars, hvars, xvars>>

\* A dispatcher starts one goroutine per request and the goroutine calls
\* c.client.Do once: Do is called for a request that has had no call yet.
CalledAtMostOnce(k) == k <= 1
NotYetCalled(k) == k = 0

\* c.client.Do is called for the j-th request built.  quorumResponse starts
\* every goroutine before it waits, so a call can still come after its
\* return; firstResponse starts the goroutines in order, one per loop
\* iteration, and none after its return.
IssueDo(j) ==
    /\ j \in 1..Len(oreqs)
    /\ NotYetCalled(issued[j])
    /\ IF op \in QuorumOps
         THEN opc \in {"dispatch", "returned"}
         ELSE opc = "dispatch" /\ \A k \in 1..(j - 1) : issued[k] > 0
    /\ issued' = [issued EXCEPT ![j] = @ + 1]
    /\ UNCHANGED <<op, headers, opc, partition, parentPartition, nodes, parentDevices,
                   badUrl, idx, oreqs, dres, oret>>
    /\ UNCHANGED <<qvars, fvars, pvars, cvars, rvars, hvars, xvars>>

\* The statuses quorumResponse can return: those it counts.
QuorumResults == {s \in Statuses : Counted(s)}

\* A write operation returns what quorumResponse returns: a status that a
\* quorum of the requests, each after its Do, has sent.
OpReturnQuorum(s) ==
    /\ opc = "dispatch"
    /\ op \in QuorumOps
    /\ s \in QuorumResults
    /\ Len(oreqs) >= 1
    /\ Cardinality({j \in 1..Len(oreqs) : issued[j] > 0}) >= Quorum(Len(oreqs))
    /\ opc' = "returned"
    /\ dres' = [from |-> 0, StatusCode |-> s]
    /\ oret' = [body |-> 0, header |-> 0, status |-> s]
    /\ UNCHANGED <<op, headers, partition, parentPartition, nodes, parentDevices, badUrl,
                   idx, oreqs, issued>>
    /\ UNCHANGED <<qvars, fvars, pvars, cvars, rvars, hvars, xvars>>

\* What firstResponse can return: the 2xx response of a request whose Do was
\* called, or nil once every request has been started.
FirstResults ==
    {r \in [from : 1..Len(oreqs), StatusCode : ReadStatuses] :
        issued[r.from] > 0 /\ EndsSearch(r)}
    \cup {r \in {Nil} : \A j \in 1..Len(oreqs) : issued[j] > 0}

\* if resp == nil { return nil, nil, 404 }
\* return resp.Body, resp.Header, resp.StatusCode
\* (a HEAD returns no body).  Bodies and header maps are named by the request
\* they answer; 0 is nil.
NotFoundAsUnavailable == 500 + 3
NotFound == 404
ReadResult(o, r) ==
    IF r = Nil
      THEN [body |-> 0, header |-> 0, status |-> NotFound]
      ELSE [body |-> IF o \in BodyOps THEN r.from ELSE 0,
            header |-> r.from, status |-> r.StatusCode]

\* A read operation returns on what firstResponse returned.
OpReturnFirst(r) ==
    /\ opc = "dispatch"
    /\ op \in FirstOps
    /\ r \in FirstResults
    /\ opc' = "returned"
    /\ dres' = r
    /\ oret' = ReadResult(op, r)
    /\ UNCHANGED <<op, headers, partition, parentPartition, nodes, parentDevices, badUrl,
                   idx, oreqs, issued>>
    /\ UNCHANGED <<qvars, fvars, pvars, cvars, rvars, hvars, xvars>>

\* io.MultiWriter(writers[0], writers[1], writers[2]): the number of pipe
\* write-ends PutObject's transfer goroutine indexes.
PipesAssumed == 3

\* PutObject's transfer goroutine, started before quorumResponse is called,
\* indexes writers[0..2]: with fewer requests built the index is out of
\* range and the goroutine panics, whenever it comes to run.
TransferFault ==
    /\ op = "PutObject"
    /\ opc \in {"dispatch", "returned"}
    /\ Len(oreqs) < PipesAssumed
    /\ opc' = "fault"
    /\ UNCHANGED <<op, headers, partition, parentPartition, nodes, parentDevices, badUrl,
                   idx, oreqs, issued, dres, oret>>
    /\ UNCHANGED <<qvars, fvars, pvars, cvars, rvars, hvars, xvars>>

NextOps ==
    \/ /\ opc = "idle"
       /\ \E o \in Ops, n \in 1..MaxReqs, m \in 0..MaxReqs,
             p \in Partitions, pp \in Partitions, h \in CallerHeaders :
             \E bad \in SUBSET (1..n) : OpCall(o, n, m, bad, p, pp, h)
    \/ BuildRequest
    \/ Dispatch
    \/ \E j \in 1..MaxReqs : IssueDo(j)
    \/ \E s \in Statuses : OpReturnQuorum(s)
    \/ \E r \in FirstResults : OpReturnFirst(r)
    \/ TransferFault

SpecOps == Init /\ [][NextOps]_vars

(***************************************************************************)
(* PutObject: the pipes, the transfer goroutine and the quorum dispatcher  *)
(* running beside it.                                                      *)
(***************************************************************************)

\* Largest number of devices the object ring's GetNodes gives.
MaxDevices == 4

\* Largest number of chunks io.Copy reads from the source.
MaxChunks == 2

\* What a backend PUT sub-request yields.
PutOutcomes == {Response(200), TransportFailure}

\* writers after the loop: the write ends of the pipes whose request was
\* built, in ring order (`continue` comes before the append).
Built(n, bad) == SelectSeq([i \in 1..n |-> i], LAMBDA i : i \notin bad)

\* PutObject up to and including `go func()`: one pipe per device, its two
\* Close calls deferred, a request per pipe unless http.NewRequest fails; the
\* transfer goroutine is created.
PutCall(n, bad) ==
    /\ ppc = "idle"
    /\ ppc' = "running"
    /\ pipes' = n
    /\ writers' = Built(n, bad)
    /\ received' = [p \in 1..n |-> 0]
    /\ UNCHANGED <<accepted, tpc, wk, tclosed, dclosed, copyEnd, failed,
                   lateWrites, pret>>
    /\ UNCHANGED <<qvars, fvars, ovars, cvars, rvars, hvars, xvars>>

\* return c.quorumResponse(reqs...): the call.
PutDispatch ==
    /\ ppc = "running"
    /\ tpc # "panic"
    /\ QuorumCall(Len(writers))

\* The dispatcher's goroutines and loop, as long as the process runs.
PutClientDo(i, o) == tpc # "panic" /\ ClientDo(i, o)
PutReceive(i) == tpc # "panic" /\ Receive(i)
PutCancelled(i) == tpc # "panic" /\ Cancelled(i)

\* quorumResponse has returned: PutObject returns its value and the
\* deferred rp.Close() and wp.Close() of every pipe run.
PutReturn ==
    /\ ppc = "running"
    /\ tpc # "panic"
    /\ qpc = "returned"
    /\ ppc' = "returned"
    /\ pret' = qret
    /\ dclosed' = 1..pipes
    /\ UNCHANGED <<pipes, writers, accepted, tpc, wk, received,
                   tclosed, copyEnd, failed, lateWrites>>
    /\ UNCHANGED <<qvars, fvars, ovars, cvars, rvars, hvars, xvars>>

\* The transfer goroutine comes to run: io.MultiWriter(writers[0],
\* writers[1], writers[2]) panics when writers is shorter, else io.Copy
\* starts.
TransferStart ==
    /\ ppc # "idle"
    /\ tpc = "new"
    /\ tpc' = IF Len(writers) < PipesAssumed THEN "panic" ELSE "read"
    /\ UNCHANGED <<ppc, pipes, writers, accepted, wk, received,
                   tclosed, dclosed, copyEnd, failed, lateWrites, pret>>
    /\ UNCHANGED <<qvars, fvars, ovars, cvars, rvars, hvars, xvars>>

\* io.Copy's src.Read yields a chunk, which goes to the MultiWriter's first
\* writer.
SrcRead ==
    /\ tpc = "read"
    /\ accepted < MaxChunks
    /\ accepted' = accepted + 1
    /\ tpc' = "write"
    /\ wk' = 1
    /\ UNCHANGED <<ppc, pipes, writers, received, tclosed, dclosed, copyEnd,
                   failed, lateWrites, pret>>
    /\ UNCHANGED <<qvars, fvars, ovars, cvars, rvars, hvars, xvars>>

\* io.Copy's src.Read yields the end of the source, EOF or an error (end):
\* the copy is over.
SrcEnds(end) ==
    /\ tpc = "read"
    /\ copyEnd' = end
    /\ tpc' = "close"
    /\ UNCHANGED <<ppc, pipes, writers, accepted, wk, received, tclosed, dclosed,
                   failed, lateWrites, pret>>
    /\ UNCHANGED <<qvars, fvars, ovars, cvars, rvars, hvars, xvars>>

\* The read end of writers[g] is being read: its request's Do is under way
\* (the transport reads the body) and nothing has closed the pipe.
ReaderTakes(g) ==
    /\ qpc # "idle"
    /\ gpc[g] = "Do"
    /\ writers[g] \notin dclosed

\* A write to writers[g] fails: the transport has closed the request body
\* (Do is over), or the deferred Close calls have run.
WriteRefusedByTransport(g) == qpc # "idle" /\ gpc[g] # "Do"
WriteRefused(g) ==
    \/ writers[g] \in dclosed
    \/ qpc # "idle" /\ gpc[g] # "Do"

\* The MultiWriter's write to the wk-th writer completes: the pipe's reader
\* has taken the chunk.  The next writer follows, or, after the last, the
\* next read.
WriteChunk ==
    /\ tpc = "write"
    /\ ReaderTakes(wk)
    /\ received' = [received EXCEPT ![writers[wk]] = @ + 1]
    /\ lateWrites' = IF failed THEN lateWrites + 1 ELSE lateWrites
    /\ IF wk < PipesAssumed
         THEN wk' = wk + 1 /\ UNCHANGED tpc
         ELSE tpc' = "read" /\ UNCHANGED wk
    /\ UNCHANGED <<ppc, pipes, writers, accepted, tclosed,
                   dclosed, copyEnd, failed, pret>>
    /\ UNCHANGED <<qvars, fvars, ovars, cvars, rvars, hvars, xvars>>

\* MultiWriter.Write: `if err != nil { return }`, and io.Copy stops on the
\* write error.
GoesOnAfterError(err) == FALSE
StopsOnError(err) == err

\* The write to the wk-th writer fails.
WriteFails ==
    /\ tpc = "write"
    /\ WriteRefused(wk)
    /\ failed' = TRUE
    /\ IF StopsOnError(TRUE)
         THEN /\ copyEnd' = "writeerr"
              /\ tpc' = "close"
              /\ UNCHANGED wk
         ELSE /\ IF wk < PipesAssumed
                   THEN wk' = wk + 1 /\ UNCHANGED tpc
                   ELSE tpc' = "read" /\ UNCHANGED wk
              /\ UNCHANGED copyEnd
    /\ UNCHANGED <<ppc, pipes, writers, accepted, received,
                   tclosed, dclosed, lateWrites, pret>>
    /\ UNCHANGED <<qvars, fvars, ovars, cvars, rvars, hvars, xvars>>

\* for _, writer := range writers { writer.Close() }
CloseWriters ==
    /\ tpc = "close"
    /\ tclosed' = {writers[g] : g \in 1..Len(writers)}
    /\ tpc' = "done"
    /\ UNCHANGED <<ppc, pipes, writers, accepted, wk, received,
                   dclosed, copyEnd, failed, lateWrites, pret>>
    /\ UNCHANGED <<qvars, fvars, ovars, cvars, rvars, hvars, xvars>>

\* A panic in any goroutine ends the process: every step needs tpc to be
\* other than "panic" (the transfer goroutine's own steps do by their tpc).
NextP ==
    \/ /\ ppc = "idle"
       /\ \E n \in 1..MaxDevices : \E bad \in SUBSET (1..n) : PutCall(n, bad)
    \/ PutDispatch
    \/ PutReturn
    \/ TransferStart
    \/ SrcRead
    \/ \E end \in {"EOF", "srcerr"} : SrcEnds(end)
    \/ WriteChunk
    \/ WriteFails
    \/ CloseWriters
    \/ \E i \in 1..MaxDevices, o \in PutOutcomes : PutClientDo(i, o)
    \/ \E i \in 1..MaxDevices : PutReceive(i)
    \/ \E i \in 1..MaxDevices : PutCancelled(i)

SpecP == Init /\ [][NextP]_vars

\* The scheduling the transfer goroutine runs under: the goroutine takes its
\* next step whenever it has one (it is started, a read from the source
\* returns, a pipe write whose reader takes the chunk or whose pipe is
\* closed returns, the closing loop runs).
TransferStep ==
    \/ TransferStart
    \/ SrcRead
    \/ \E end \in {"EOF", "srcerr"} : SrcEnds(end)
    \/ WriteChunk
    \/ WriteFails
    \/ CloseWriters

FairSpecP == SpecP /\ WF_vars(TransferStep)

(***************************************************************************)
(* mkquery, and the account-scoped client directClient, which calls the   *)
(* proxy operations and turns their status into an error.  A string is a   *)
(* sequence of characters.                                                 *)
(***************************************************************************)

\* Greatest length of an option value given to mkquery.
MaxLen == 2

\* The characters option keys and values are made of: a letter and
\* characters that have a meaning in a query string.
Alphabet == {"a", "&", "=", "+", " "}

\* The strings over Alphabet of length up to n.
Strings(n) == UNION {[1..l -> Alphabet] : l \in 0..n}

\* url.QueryEscape: a letter stays, a space becomes '+', any other
\* character becomes %XX.
EscapeChar(c) ==
    CASE c = " " -> <<"+">>
      [] c = "&" -> <<"%", "2", "6">>
      [] c = "=" -> <<"%", "3", "D">>
      [] c = "+" -> <<"%", "2", "B">>
      [] OTHER   -> <<c>>

RECURSIVE QueryEscape(_)
QueryEscapeNone(s) == s
QueryEscape(s) ==
    IF s = <<>> THEN <<>> ELSE EscapeChar(Head(s)) \o QueryEscape(Tail(s))

\* strings.TrimRight(s, "&"): every trailing '&' is removed.
RECURSIVE TrimRight(_, _)
TrimRight(s, c) ==
    IF s # <<>> /\ s[Len(s)] = c THEN TrimRight(SubSeq(s, 1, Len(s) - 1), c) ELSE s

\* The loop of mkquery over the options in the order ord the map's range
\* yields them: key=value& for every value that is not "".
RECURSIVE QueryPairs(_, _)
QueryPairs(options, ord) ==
    IF ord = <<>> THEN <<>>
    ELSE LET k == Head(ord)
             v == options[k]
         IN  (IF v # <<>>
                THEN QueryEscape(k) \o <<"=">> \o QueryEscape(v) \o <<"&">>
                ELSE <<>>)
             \o QueryPairs(options, Tail(ord))

\* mkquery(options), the map being ranged over in the order ord.
mkquery(options, ord) ==
    LET query == QueryPairs(options, ord)
    IN  IF query # <<>> THEN <<"?">> \o TrimRight(query, "&") ELSE <<>>

\* The orders in which a range over a map with the keys ks can yield them.
Orders(ks) ==
    {ord \in [1..Cardinality(ks) -> ks] : \A i, j \in DOMAIN ord : i # j => ord[i] # ord[j]}

\* strconv.Itoa
Digit(d) == <<"0", "1", "2", "3", "4", "5", "6", "7", "8", "9">>[d + 1]
RECURSIVE Itoa(_)
Itoa(n) ==
    IF n < 0 THEN <<"-">> \o Itoa(0 - n)
    ELSE IF n < 10 THEN <<Digit(n)>>
    ELSE Itoa(n \div 10) \o <<Digit(n % 10)>>

\* The names of the options of a listing.
FormatKey == <<"f", "o", "r", "m", "a", "t">>
MarkerKey == <<"m", "a", "r", "k", "e", "r">>
EndMarkerKey == <<"e", "n", "d", "_", "m", "a", "r", "k", "e", "r">>
PrefixKey == <<"p", "r", "e", "f", "i", "x">>
DelimiterKey == <<"d", "e", "l", "i", "m", "i", "t", "e", "r">>
LimitKey == <<"l", "i", "m", "i", "t">>

\* options := map[string]string{"format": "json", "marker": marker, ...}
\* if limit != 0 { options["limit"] = strconv.Itoa(limit) }
ListingOptions(marker, endMarker, limit, prefix, delimiter) ==
    LET ks == {FormatKey, MarkerKey, EndMarkerKey, PrefixKey, DelimiterKey}
                \cup (IF limit # 0 THEN {LimitKey} ELSE {})
    IN  [k \in ks |->
            CASE k = FormatKey -> <<"j", "s", "o", "n">>
              [] k = MarkerKey -> marker
              [] k = EndMarkerKey -> endMarker
              [] k = PrefixKey -> prefix
              [] k = DelimiterKey -> delimiter
              [] OTHER -> Itoa(limit)]

\* The methods of directClient; GetAccount and GetContainer are the listings.
FacadeMethods == Ops \ {"GrepObject"}
Listings == {"GetAccount", "GetContainer"}

\* The statuses a proxy operation hands to the method.
FacadeCodes == {200, 204, 404, 503}

\* What the body of a listing response can hold: a JSON array of records,
\* the empty array, a JSON array cut short, bytes that are not JSON, or a
\* JSON array whose second record has a field of the wrong type.
BodyKinds == {"listing", "empty", "truncated", "garbage", "mismatch"}

\* HTTPError(code): the error carrying the status; NoError is nil.
HTTPError(code) == [HTTPError |-> code]
NoError == [HTTPError |-> 0]

\* `code/100 != 2` in every method but the listings, which test `code != 200`.
Fails(m, code) == IF m \in Listings THEN code # 200 ELSE code \div 100 # 2

\* decoder.Decode(&listing): the records decoded and whether Decode returned
\* an error.  Input that is not a complete JSON value leaves the listing
\* nil; a field of the wrong type is skipped, with an error, and the rest is
\* decoded.
Decode(body) ==
    CASE body = "listing"  -> [list |-> <<"r1", "r2">>, err |-> FALSE]
      [] body = "mismatch" -> [list |-> <<"r1", "r0">>, err |-> TRUE]
      [] body = "empty"    -> [list |-> <<>>, err |-> FALSE]
      [] OTHER             -> [list |-> <<>>, err |-> TRUE]

\* decoder.Decode(&listing); return listing, common.Headers2Map(h), nil
\* (the error of Decode is dropped).
ListingResultOrError(d) ==
    IF d.err THEN [err |-> HTTPError(500), list |-> <<>>, headers |-> FALSE]
    ELSE [err |-> NoError, list |-> d.list, headers |-> TRUE]
ListingResult(d) == [err |-> NoError, list |-> d.list, headers |-> TRUE]

\* The methods that return a header map on success.
ReturnsHeaders == {"HeadAccount", "HeadContainer", "HeadObject", "GetObject"}

\* What the method m returns on the operation's status and body.
MethodResult(m, code, body) ==
    IF Fails(m, code)
      THEN [err |-> HTTPError(code), list |-> <<>>, headers |-> FALSE]
      ELSE IF m \in Listings
             THEN ListingResult(Decode(body))
             ELSE [err |-> NoError, list |-> <<>>, headers |-> m \in ReturnsHeaders]

\* What has become, when the method m returns, of the body of the response
\* its proxy operation chose. firstResponse gives a response only with a
\* 2xx status. The Head operations close the body themselves; GetObject
\* hands it to the caller, and closes it on an error if there is one;
\* GetContainer defers r.Close() once the status is 200; GetAccount does
\* not close it. The other methods end in quorumResponse and choose no
\* response.
StreamAtReturn(m, code) ==
    CASE m \notin FirstOps \/ code \div 100 # 2 -> "none"
      [] m \in {"HeadAccount", "HeadContainer", "HeadObject"} -> "closed"
      [] m = "GetObject" -> "caller"
      [] m = "GetContainer" -> IF code = 200 THEN "closed" ELSE "open"
      [] m = "GetAccount" -> "open"

\* The values the parameters of a listing take.
Markers == {<<>>, <<"a">>, <<"&", " ">>}
EndMarkers == {<<>>, <<"=">>}
Prefixes == {<<>>, <<"a">>}
Delimiters == {<<>>, <<"+">>}
Limits == {0, 10}

\* The keys of an options map handed to mkquery directly.
QueryKeys == {<<"a">>, <<"&">>}

\* mkquery(options) is called, the map's range yielding the keys in the
\* order ord.
MkqueryCall(options, ord) ==
    /\ cpc = "idle"
    /\ cmethod' = "mkquery"
    /\ coptions' = options
    /\ cquery' = mkquery(options, ord)
    /\ cpc' = "returned"
    /\ UNCHANGED <<ccode, cbody, climit, cret, cstream>>
    /\ UNCHANGED <<qvars, fvars, ovars, pvars, rvars, hvars, xvars>>

\* A method other than a listing is called and calls its proxy operation.
FacadeCall(m) ==
    /\ cpc = "idle"
    /\ m \in FacadeMethods \ Listings
    /\ cmethod' = m
    /\ cpc' = "called"
    /\ UNCHANGED <<ccode, cbody, climit, coptions, cquery, cret, cstream>>
    /\ UNCHANGED <<qvars, fvars, ovars, pvars, rvars, hvars, xvars>>

\* A listing is called: it makes the options and calls its proxy operation,
\* which builds the query with mkquery.
ListingCall(m, marker, endMarker, limit, prefix, delimiter, ord) ==
    /\ cpc = "idle"
    /\ m \in Listings
    /\ cmethod' = m
    /\ climit' = limit
    /\ coptions' = ListingOptions(marker, endMarker, limit, prefix, delimiter)
    /\ cquery' = mkquery(coptions', ord)
    /\ cpc' = "called"
    /\ UNCHANGED <<ccode, cbody, cret, cstream>>
    /\ UNCHANGED <<qvars, fvars, ovars, pvars, rvars, hvars, xvars>>

\* The proxy operation returns status code (and, to a listing, a body) and
\* the method returns.
FacadeReturn(code, body) ==
    /\ cpc = "called"
    /\ body = "none" <=> Fails(cmethod, code) \/ cmethod \notin Listings
    /\ ccode' = code
    /\ cbody' = body
    /\ cret' = MethodResult(cmethod, code, body)
    /\ cstream' = StreamAtReturn(cmethod, code)
    /\ cpc' = "returned"
    /\ UNCHANGED <<cmethod, climit, coptions, cquery>>
    /\ UNCHANGED <<qvars, fvars, ovars, pvars, rvars, hvars, xvars>>

NextC ==
    \/ /\ cpc = "idle"
       /\ \E ks \in SUBSET QueryKeys :
             \E options \in [ks -> Strings(MaxLen)], ord \in Orders(ks) :
                MkqueryCall(options, ord)
    \/ \E m \in FacadeMethods : FacadeCall(m)
    \/ /\ cpc = "idle"
       /\ \E m \in Listings, marker \in Markers, endMarker \in EndMarkers,
             limit \in Limits, prefix \in Prefixes, delimiter \in Delimiters :
             \E ord \in Orders(DOMAIN ListingOptions(marker, endMarker, limit,
                                                    prefix, delimiter)) :
                ListingCall(m, marker, endMarker, limit, prefix, delimiter, ord)
    \/ \E code \in FacadeCodes, body \in BodyKinds \cup {"none"} :
          FacadeReturn(code, body)

SpecC == Init /\ [][NextC]_vars

(***************************************************************************)
(* ReplicationManager: Begin and Done, called by concurrent replication    *)
(* sessions.  A channel of empty structs is the number of elements in it;  *)
(* a ticker's channel is whether a tick waits in it.                       *)
(***************************************************************************)

\* The devices sessions name.
Devices == {"sda", "sdb"}

\* ch <- struct{}{} can proceed; a channel made with capacity 0 would take
\* an element only while a receiver waits, and a receive is only ever
\* reached after a send has been made.
CanSendBeyond(n, cap) == n <= cap
CanSend(n, cap) == n < cap
SendNothing(n) == n
Send(n) == n + 1

\* <-ch can proceed, and what it leaves.
CanRecv(n) == n > 0
RecvNothing(n) == n
Recv(n) == n - 1

\* The positions of a call of Begin.
InBegin == {"loop", "inner", "release"}

\* NewReplicationManager(limitPerDisk, limitOverall)
NewReplicationManager(lpd, lo) ==
    /\ ~constructed
    /\ constructed' = TRUE
    /\ limitPerDisk' = lpd
    /\ limitOverall' = lo
    /\ devSem' = [d \in {} |-> 0]
    /\ totalSem' = 0
    /\ UNCHANGED <<lock, rpc, device, timeoutTick, loopTick, heldDev, heldTotal>>
    /\ UNCHANGED <<qvars, fvars, ovars, pvars, cvars, hvars, xvars>>

\* A session calls Begin(device, timeout) and comes to r.lock.Lock().
Begin(s, d) ==
    /\ constructed
    /\ rpc[s] = "idle"
    /\ rpc' = [rpc EXCEPT ![s] = "begin"]
    /\ device' = [device EXCEPT ![s] = d]
    /\ UNCHANGED <<constructed, limitPerDisk, limitOverall, devSem, totalSem, lock,
                   timeoutTick, loopTick, heldDev, heldTotal>>
    /\ UNCHANGED <<qvars, fvars, ovars, pvars, cvars, hvars, xvars>>

\* Lock ... Unlock in Begin: the device's channel is looked up, and made on
\* the first call for the device; then the two tickers are made.
BeginLookup(s) ==
    /\ rpc[s] = "begin"
    /\ lock = Unlocked
    /\ devSem' = IF device[s] \in DOMAIN devSem THEN devSem
                 ELSE [d \in DOMAIN devSem \cup {device[s]} |->
                          IF d = device[s] THEN 0 ELSE devSem[d]]
    /\ rpc' = [rpc EXCEPT ![s] = "loop"]
    /\ timeoutTick' = [timeoutTick EXCEPT ![s] = FALSE]
    /\ loopTick' = [loopTick EXCEPT ![s] = FALSE]
    /\ UNCHANGED <<constructed, limitPerDisk, limitOverall, totalSem, lock, device,
                   heldDev, heldTotal>>
    /\ UNCHANGED <<qvars, fvars, ovars, pvars, cvars, hvars, xvars>>

\* timeoutTimer ticks.
TimeoutTicks(s) ==
    /\ rpc[s] \in InBegin
    /\ ~timeoutTick[s]
    /\ timeoutTick' = [timeoutTick EXCEPT ![s] = TRUE]
    /\ UNCHANGED <<constructed, limitPerDisk, limitOverall, devSem, totalSem, lock,
                   rpc, device, loopTick, heldDev, heldTotal>>
    /\ UNCHANGED <<qvars, fvars, ovars, pvars, cvars, hvars, xvars>>

\* loopTimer ticks.
LoopTicks(s) ==
    /\ rpc[s] \in InBegin
    /\ ~loopTick[s]
    /\ loopTick' = [loopTick EXCEPT ![s] = TRUE]
    /\ UNCHANGED <<constructed, limitPerDisk, limitOverall, devSem, totalSem, lock,
                   rpc, device, timeoutTick, heldDev, heldTotal>>
    /\ UNCHANGED <<qvars, fvars, ovars, pvars, cvars, hvars, xvars>>

\* case devSem <- struct{}{}: of the outer select.
BeginSendDev(s) ==
    /\ rpc[s] = "loop"
    /\ CanSend(devSem[device[s]], limitPerDisk)
    /\ devSem' = [devSem EXCEPT ![device[s]] = Send(@)]
    /\ heldDev' = [heldDev EXCEPT ![s] = Send(@)]
    /\ rpc' = [rpc EXCEPT ![s] = "inner"]
    /\ UNCHANGED <<constructed, limitPerDisk, limitOverall, totalSem, lock, device,
                   timeoutTick, loopTick, heldTotal>>
    /\ UNCHANGED <<qvars, fvars, ovars, pvars, cvars, hvars, xvars>>

\* case <-timeoutTimer.C: return false (the deferred Stop calls end the
\* tickers).
BeginTimeout(s) ==
    /\ rpc[s] = "loop"
    /\ timeoutTick[s]
    /\ rpc' = [rpc EXCEPT ![s] = "refused"]
    /\ timeoutTick' = [timeoutTick EXCEPT ![s] = FALSE]
    /\ loopTick' = [loopTick EXCEPT ![s] = FALSE]
    /\ UNCHANGED <<constructed, limitPerDisk, limitOverall, devSem, totalSem, lock,
                   device, heldDev, heldTotal>>
    /\ UNCHANGED <<qvars, fvars, ovars, pvars, cvars, hvars, xvars>>

\* case r.totalSem <- struct{}{}: return true
BeginSendTotal(s) ==
    /\ rpc[s] = "inner"
    /\ CanSend(totalSem, limitOverall)
    /\ totalSem' = Send(totalSem)
    /\ heldTotal' = [heldTotal EXCEPT ![s] = Send(@)]
    /\ rpc' = [rpc EXCEPT ![s] = "active"]
    /\ timeoutTick' = [timeoutTick EXCEPT ![s] = FALSE]
    /\ loopTick' = [loopTick EXCEPT ![s] = FALSE]
    /\ UNCHANGED <<constructed, limitPerDisk, limitOverall, devSem, lock, device,
                   heldDev>>
    /\ UNCHANGED <<qvars, fvars, ovars, pvars, cvars, hvars, xvars>>

\* case <-loopTimer.C: of the inner select.
BeginLoopTimer(s) ==
    /\ rpc[s] = "inner"
    /\ loopTick[s]
    /\ loopTick' = [loopTick EXCEPT ![s] = FALSE]
    /\ rpc' = [rpc EXCEPT ![s] = "release"]
    /\ UNCHANGED <<constructed, limitPerDisk, limitOverall, devSem, totalSem, lock,
                   device, timeoutTick, heldDev, heldTotal>>
    /\ UNCHANGED <<qvars, fvars, ovars, pvars, cvars, hvars, xvars>>

\* <-devSem, and the loop goes round.
BeginRelease(s) ==
    /\ rpc[s] = "release"
    /\ CanRecv(devSem[device[s]])
    /\ devSem' = [devSem EXCEPT ![device[s]] = Recv(@)]
    /\ heldDev' = [heldDev EXCEPT ![s] = Recv(@)]
    /\ rpc' = [rpc EXCEPT ![s] = "loop"]
    /\ UNCHANGED <<constructed, limitPerDisk, limitOverall, totalSem, lock, device,
                   timeoutTick, loopTick, heldTotal>>
    /\ UNCHANGED <<qvars, fvars, ovars, pvars, cvars, hvars, xvars>>

\* The session whose Begin returned true calls Done(device) and comes to
\* r.lock.Lock().
Done(s) ==
    /\ rpc[s] = "active"
    /\ rpc' = [rpc EXCEPT ![s] = "done"]
    /\ UNCHANGED <<constructed, limitPerDisk, limitOverall, devSem, totalSem, lock,
                   device, timeoutTick, loopTick, heldDev, heldTotal>>
    /\ UNCHANGED <<qvars, fvars, ovars, pvars, cvars, hvars, xvars>>

\* r.lock.Lock() in Done
DoneLock(s) ==
    /\ rpc[s] = "done"
    /\ lock = Unlocked
    /\ lock' = s
    /\ rpc' = [rpc EXCEPT ![s] = "recvDev"]
    /\ UNCHANGED <<constructed, limitPerDisk, limitOverall, devSem, totalSem, device,
                   timeoutTick, loopTick, heldDev, heldTotal>>
    /\ UNCHANGED <<qvars, fvars, ovars, pvars, cvars, hvars, xvars>>

\* <-r.devSem[device]
DoneRecvDev(s) ==
    /\ rpc[s] = "recvDev"
    /\ CanRecv(devSem[device[s]])
    /\ devSem' = [devSem EXCEPT ![device[s]] = Recv(@)]
    /\ rpc' = [rpc EXCEPT ![s] = "recvTotal"]
    /\ UNCHANGED <<constructed, limitPerDisk, limitOverall, totalSem, lock, device,
                   timeoutTick, loopTick, heldDev, heldTotal>>
    /\ UNCHANGED <<qvars, fvars, ovars, pvars, cvars, hvars, xvars>>

\* <-r.totalSem
DoneRecvTotal(s) ==
    /\ rpc[s] = "recvTotal"
    /\ CanRecv(totalSem)
    /\ totalSem' = Recv(totalSem)
    /\ rpc' = [rpc EXCEPT ![s] = "unlock"]
    /\ UNCHANGED <<constructed, limitPerDisk, limitOverall, devSem, lock, device,
                   timeoutTick, loopTick, heldDev, heldTotal>>
    /\ UNCHANGED <<qvars, fvars, ovars, pvars, cvars, hvars, xvars>>

\* r.lock.Unlock(), and Done returns.
DoneUnlock(s) ==
    /\ rpc[s] = "unlock"
    /\ lock' = Unlocked
    /\ rpc' = [rpc EXCEPT ![s] = "finished"]
    /\ UNCHANGED <<constructed, limitPerDisk, limitOverall, devSem, totalSem, device,
                   timeoutTick, loopTick, heldDev, heldTotal>>
    /\ UNCHANGED <<qvars, fvars, ovars, pvars, cvars, hvars, xvars>>

NextR ==
    \/ /\ ~constructed
       /\ \E lpd \in 0..MaxLimit, lo \in 0..MaxLimit : NewReplicationManager(lpd, lo)
    \/ \E s \in Sessions, d \in Devices : Begin(s, d)
    \/ \E s \in Sessions : BeginLookup(s)
    \/ \E s \in Sessions : TimeoutTicks(s)
    \/ \E s \in Sessions : LoopTicks(s)
    \/ \E s \in Sessions : BeginSendDev(s)
    \/ \E s \in Sessions : BeginTimeout(s)
    \/ \E s \in Sessions : BeginSendTotal(s)
    \/ \E s \in Sessions : BeginLoopTimer(s)
    \/ \E s \in Sessions : BeginRelease(s)
    \/ \E s \in Sessions : Done(s)
    \/ \E s \in Sessions : DoneLock(s)
    \/ \E s \in Sessions : DoneRecvDev(s)
    \/ \E s \in Sessions : DoneRecvTotal(s)
    \/ \E s \in Sessions : DoneUnlock(s)

SpecR == Init /\ [][NextR]_vars

(***************************************************************************)
(* Replicator.objRepConnHandler: one replication connection.  What Begin   *)
(* returns, and the result of every receive, send and file operation, is   *)
(* any of the results that call can have.                                  *)
(***************************************************************************)

\* SyncFileRequests one session sends before its Done message, the greatest
\* timestamp in a file name, and the greatest declared size.
MaxRequests == 2
MaxName == 2
MaxSize == 2

\* File extensions, in the order of their strings.
ExtRank == [data |-> 1, meta |-> 2, tmp |-> 3, ts |-> 4]
Exts == DOMAIN ExtRank

\* filepath.Base of a file name: timestamp and extension; of "" (no file)
\* it is ".", which is smaller than every name that starts with a digit.
NoFile == [ts |-> 0, ext |-> "data"]
BaseNames == [ts : 1..MaxName, ext : Exts]

\* a < b for two base names, as strings.
Less(a, b) ==
    \/ a.ts < b.ts
    \/ a.ts = b.ts /\ a.ts # 0 /\ ExtRank[a.ext] < ExtRank[b.ext]

\* ObjectFiles(hashDir): the data (or tombstone) file and the meta file of
\* the hash directory, "" for none.
DataFiles == {NoFile} \cup {b \in BaseNames : b.ext \in {"data", "ts"}}
MetaFiles == {NoFile} \cup {b \in BaseNames : b.ext = "meta"}

\* The SyncFileRequests a client can send: Path is the extension of the
\* file name and the length of the name of its directory.
HashLens == {31, 32}
Requests ==
    [Done : BOOLEAN, Ping : BOOLEAN, Check : BOOLEAN,
     Path : [ext : Exts, hashLen : HashLens],
     Name : 1..MaxName, Xattrs : {"hex", "nothex", "empty"}, Size : 0..MaxSize]

\* What the disk can hold when a request is handled.
Disks == [exists : BOOLEAN, dataFile : DataFiles, metaFile : MetaFiles]

\* (ext != ".data" && ext != ".ts" && ext != ".meta") ||
\*     len(filepath.Base(filepath.Dir(fileName))) != 32
InvalidPath(path) ==
    (path.ext # "data" /\ path.ext # "ts" /\ path.ext # "meta") \/ path.hashLen # 32

\* filepath.Base(fileName) < filepath.Base(dataFile) ||
\*     filepath.Base(fileName) < filepath.Base(metaFile)
NewerExists(req, disk) ==
    LET base == [ts |-> req.Name, ext |-> req.Path.ext]
    IN  Less(base, disk.dataFile) \/ Less(base, disk.metaFile)

\* if sfr.Check
JustCheck(req) == req.Check

\* The message the closure answers a request with before it makes a file,
\* "" when it goes on to make one.
Verdict(req, disk) ==
    CASE req.Ping -> "pong"
      [] InvalidPath(req.Path) -> "bad file path"
      [] disk.exists -> "exists"
      [] NewerExists(req, disk) -> "newer exists"
      [] JustCheck(req) -> "doesn't exist"
      [] OTHER -> ""

\* The status the client is sent: the first WriteHeader sets it, and
\* WriteHeader(http.StatusOK) comes before Hijack; later calls write nothing.
WireStatus == IF written = <<>> THEN 0 ELSE Head(written)

\* return from the handler after WriteHeader of the statuses ws: the
\* deferred calls run, r.replicationMan.Done(brr.Device) if it was deferred
\* and conn.Close() if the connection was hijacked.
Return(ws, deferred) ==
    /\ hpc' = "returned"
    /\ written' = written \o ws
    /\ doneCalls' = IF deferred THEN Append(doneCalls, brr.Device) ELSE doneCalls
    /\ connClosed' = hijacked

\* The closure of the session loop returns err for the request; the
\* deferred tempFile.Abandon() runs if the writer was made.
EndRequest(events, err) ==
    /\ fileEvents' = IF "NewAtomicFileWriter" \in {events[i] : i \in DOMAIN events}
                       THEN Append(events, "Abandon") ELSE events
    /\ cerr' = err
    /\ hpc' = "closureReturned"

\* The handler is called: WriteHeader(http.StatusOK), then the connection
\* is hijacked; if that fails the handler returns after StandardResponse.
RepConn(ok) ==
    /\ hpc = "idle"
    /\ IF ok
         THEN /\ hijacked' = TRUE
              /\ hpc' = "recvBegin"
              /\ written' = <<200>>
         ELSE /\ UNCHANGED hijacked
              /\ written' = <<200, 500>>
              /\ hpc' = "returned"
    /\ UNCHANGED <<connClosed, doneCalls, brr, began, hashOps, nreq, sfr, onDisk,
                   responses, fileEvents, got, cerr, exitOn>>
    /\ UNCHANGED <<qvars, fvars, ovars, pvars, cvars, rvars, xvars>>
\* rc.RecvMessage(&brr)
RecvBegin(msg, ok) ==
    /\ hpc = "recvBegin"
    /\ IF ok
         THEN /\ brr' = msg
              /\ hpc' = "begin"
              /\ UNCHANGED <<written, doneCalls, connClosed>>
         ELSE /\ UNCHANGED brr
              /\ Return(<<400>>, FALSE)
    /\ UNCHANGED <<hijacked, began, hashOps, nreq, sfr, onDisk, responses,
                   fileEvents, got, cerr, exitOn>>
    /\ UNCHANGED <<qvars, fvars, ovars, pvars, cvars, rvars, xvars>>
\* r.replicationMan.Begin(brr.Device, r.replicateTimeout) returns b: on
\* false the handler writes 503 and returns; on true Done is deferred.
BeginReturns(b) ==
    /\ hpc = "begin"
    /\ IF b
         THEN /\ began' = "true"
              /\ hpc' = IF brr.NeedHashes THEN "hashes" ELSE "sendBegin"
              /\ UNCHANGED <<written, doneCalls, connClosed>>
         ELSE /\ began' = "false"
              /\ Return(<<503>>, FALSE)
    /\ UNCHANGED <<hijacked, brr, hashOps, nreq, sfr, onDisk, responses,
                   fileEvents, got, cerr, exitOn>>
    /\ UNCHANGED <<qvars, fvars, ovars, pvars, cvars, rvars, xvars>>
\* if brr.NeedHashes { hashes, err = GetHashes(...) }
GetHashes(ok) ==
    /\ hpc = "hashes"
    /\ hashOps' = hashOps + 1
    /\ IF ok
         THEN /\ hpc' = "sendBegin"
              /\ UNCHANGED <<written, doneCalls, connClosed>>
         ELSE Return(<<500>>, TRUE)
    /\ UNCHANGED <<hijacked, brr, began, nreq, sfr, onDisk, responses, fileEvents,
                   got, cerr, exitOn>>
    /\ UNCHANGED <<qvars, fvars, ovars, pvars, cvars, rvars, xvars>>
\* rc.SendMessage(BeginReplicationResponse{Hashes: hashes})
SendBegin(ok) ==
    /\ hpc = "sendBegin"
    /\ IF ok
         THEN /\ hpc' = "recv"
              /\ UNCHANGED <<written, doneCalls, connClosed>>
         ELSE Return(<<500>>, TRUE)
    /\ UNCHANGED <<hijacked, brr, began, hashOps, nreq, sfr, onDisk, responses,
                   fileEvents, got, cerr, exitOn>>
    /\ UNCHANGED <<qvars, fvars, ovars, pvars, cvars, rvars, xvars>>
\* rc.RecvMessage(&sfr) in the closure: an error is returned, and a message
\* with Done returns replicationDone.
RecvRequest(msg, ok) ==
    /\ hpc = "recv"
    /\ msg.Done \/ ~ok \/ nreq < MaxRequests
    /\ IF ~ok
         THEN /\ sfr' = NoRequest
              /\ EndRequest(<<>>, "error")
         ELSE /\ sfr' = msg
              /\ IF msg.Done
                   THEN EndRequest(<<>>, "replicationDone")
                   ELSE /\ hpc' = "verdict"
                        /\ UNCHANGED <<fileEvents, cerr>>
    /\ UNCHANGED <<written, hijacked, connClosed, brr, began, doneCalls, hashOps,
                   nreq, onDisk, responses, got, exitOn>>
    /\ UNCHANGED <<qvars, fvars, ovars, pvars, cvars, rvars, xvars>>
\* The closure reads the disk for a request that is no ping and has a
\* valid path, and the hash directory's files if the file does not exist.
DiskRead(req, disk) ==
    /\ req.Ping \/ InvalidPath(req.Path) => disk = NoDisk
    /\ disk.exists => disk.dataFile = NoFile /\ disk.metaFile = NoFile

\* The tests of the closure before it makes a file: a ping, an invalid
\* path, an existing file, a newer file and a check are answered with one
\* message, whose SendMessage returns the closure's error.
Answer(disk, ok) ==
    /\ hpc = "verdict"
    /\ DiskRead(sfr, disk)
    /\ onDisk' = disk
    /\ LET msg == Verdict(sfr, disk)
       IN  IF msg = ""
             THEN /\ ok
                  /\ hpc' = "tempFile"
                  /\ UNCHANGED <<responses, fileEvents, cerr>>
             ELSE /\ responses' = Append(responses, [msg |-> msg, sent |-> ok])
                  /\ EndRequest(fileEvents, IF ok THEN "nil" ELSE "error")
    /\ UNCHANGED <<written, hijacked, connClosed, brr, began, doneCalls, hashOps,
                   nreq, sfr, got, exitOn>>
    /\ UNCHANGED <<qvars, fvars, ovars, pvars, cvars, rvars, xvars>>
\* One step of the closure that only does a file operation: on an error
\* the closure returns it, else it goes on at the position next.
FileStep(at, event, ok, next) ==
    /\ hpc = at
    /\ IF ok
         THEN /\ fileEvents' = Append(fileEvents, event)
              /\ hpc' = next
              /\ UNCHANGED cerr
         ELSE EndRequest(fileEvents, "error")
    /\ UNCHANGED <<written, hijacked, connClosed, brr, began, doneCalls, hashOps,
                   nreq, sfr, onDisk, responses, got, exitOn>>
    /\ UNCHANGED <<qvars, fvars, ovars, pvars, cvars, rvars, xvars>>
\* tempFile, err := fs.NewAtomicFileWriter(tempDir, hashDir)
NewAtomicFileWriter(ok) == FileStep("tempFile", "NewAtomicFileWriter", ok, "preallocate")

\* tempFile.Preallocate(sfr.Size, r.reserve)
Preallocate(ok) == FileStep("preallocate", "Preallocate", ok, "xattrs")

\* hex.DecodeString(sfr.Xattrs): an error or no bytes is answered with
\* "bad xattrs"; else RawWriteMetadata(tempFile.Fd(), xattrs).
WriteMetadata(ok) ==
    /\ hpc = "xattrs"
    /\ IF sfr.Xattrs # "hex"
         THEN /\ responses' = Append(responses, [msg |-> "bad xattrs", sent |-> ok])
              /\ EndRequest(fileEvents, IF ok THEN "nil" ELSE "error")
         ELSE /\ UNCHANGED responses
              /\ IF ok
                   THEN /\ fileEvents' = Append(fileEvents, "RawWriteMetadata")
                        /\ hpc' = "goAhead"
                        /\ UNCHANGED cerr
                   ELSE EndRequest(fileEvents, "error")
    /\ UNCHANGED <<written, hijacked, connClosed, brr, began, doneCalls, hashOps,
                   nreq, sfr, onDisk, got, exitOn>>
    /\ UNCHANGED <<qvars, fvars, ovars, pvars, cvars, rvars, xvars>>
\* rc.SendMessage(SyncFileResponse{GoAhead: true, Msg: "go ahead"})
GoAhead(ok) ==
    /\ hpc = "goAhead"
    /\ responses' = Append(responses, [msg |-> "go ahead", sent |-> ok])
    /\ IF ok
         THEN /\ hpc' = "copy"
              /\ UNCHANGED <<fileEvents, cerr>>
         ELSE EndRequest(fileEvents, "error")
    /\ UNCHANGED <<written, hijacked, connClosed, brr, began, doneCalls, hashOps,
                   nreq, sfr, onDisk, got, exitOn>>
    /\ UNCHANGED <<qvars, fvars, ovars, pvars, cvars, rvars, xvars>>
\* common.CopyN(rc, sfr.Size, tempFile) copied n bytes: it returns no error
\* only if it copied sfr.Size bytes.
CopyN(n, ok) ==
    /\ n \in 0..sfr.Size
    /\ ok => n = sfr.Size

\* if _, err := common.CopyN(rc, sfr.Size, tempFile); err != nil
SavesAfterAnyCopy(ok) == TRUE
SavesAfterCopy(ok) == ok
Copy(n, ok) ==
    /\ hpc = "copy"
    /\ CopyN(n, ok)
    /\ got' = n
    /\ IF SavesAfterCopy(ok)
         THEN /\ fileEvents' = Append(fileEvents, "CopyN")
              /\ hpc' = "save"
              /\ UNCHANGED cerr
         ELSE EndRequest(Append(fileEvents, "CopyN"), "error")
    /\ UNCHANGED <<written, hijacked, connClosed, brr, began, doneCalls, hashOps,
                   nreq, sfr, onDisk, responses, exitOn>>
    /\ UNCHANGED <<qvars, fvars, ovars, pvars, cvars, rvars, xvars>>
\* tempFile.Save(fileName)
Save(ok) == FileStep("save", "Save", ok, "saved")

\* After Save: HashCleanupListDir if there was a data or meta file,
\* InvalidateHash, and SendMessage(FileUploadResponse{Success: true}).
FileDone(ok) ==
    /\ hpc = "saved"
    /\ responses' = Append(responses, [msg |-> "YAY", sent |-> ok])
    /\ EndRequest(fileEvents
                    \o (IF onDisk.dataFile # NoFile \/ onDisk.metaFile # NoFile
                          THEN <<"HashCleanupListDir">> ELSE <<>>)
                    \o <<"InvalidateHash">>,
                  IF ok THEN "nil" ELSE "error")
    /\ UNCHANGED <<written, hijacked, connClosed, brr, began, doneCalls, hashOps,
                   nreq, sfr, onDisk, got, exitOn>>
    /\ UNCHANGED <<qvars, fvars, ovars, pvars, cvars, rvars, xvars>>
\* After the closure: replicationDone ends the handler, any other error
\* ends it after WriteHeader(500), and without an error the loop goes round.
EndsLoop(err) == err # "nil"
AfterClosure ==
    /\ hpc = "closureReturned"
    /\ IF EndsLoop(cerr)
         THEN /\ exitOn' = cerr
              /\ Return(IF cerr = "replicationDone" THEN <<>> ELSE <<500>>, TRUE)
              /\ UNCHANGED <<nreq, sfr, onDisk, responses, fileEvents, got, cerr>>
         ELSE /\ hpc' = "recv"
              /\ nreq' = nreq + 1
              /\ sfr' = NoRequest
              /\ onDisk' = NoDisk
              /\ responses' = <<>>
              /\ fileEvents' = <<>>
              /\ got' = 0
              /\ cerr' = "none"
              /\ UNCHANGED <<written, doneCalls, connClosed, exitOn>>
    /\ UNCHANGED <<hijacked, brr, began, hashOps>>
    /\ UNCHANGED <<qvars, fvars, ovars, pvars, cvars, rvars, xvars>>
NextH ==
    \/ \E ok \in BOOLEAN : RepConn(ok)
    \/ \E d \in Devices, nh \in BOOLEAN, ok \in BOOLEAN :
          RecvBegin([Device |-> d, NeedHashes |-> nh], ok)
    \/ \E b \in BOOLEAN : BeginReturns(b)
    \/ \E ok \in BOOLEAN : GetHashes(ok)
    \/ \E ok \in BOOLEAN : SendBegin(ok)
    \/ /\ hpc = "recv"
       /\ \E msg \in Requests, ok \in BOOLEAN : RecvRequest(msg, ok)
    \/ /\ hpc = "verdict"
       /\ \E disk \in Disks, ok \in BOOLEAN : Answer(disk, ok)
    \/ \E ok \in BOOLEAN : NewAtomicFileWriter(ok)
    \/ \E ok \in BOOLEAN : Preallocate(ok)
    \/ \E ok \in BOOLEAN : WriteMetadata(ok)
    \/ \E ok \in BOOLEAN : GoAhead(ok)
    \/ /\ hpc = "copy"
       /\ \E n \in 0..MaxSize, ok \in BOOLEAN : Copy(n, ok)
    \/ \E ok \in BOOLEAN : Save(ok)
    \/ \E ok \in BOOLEAN : FileDone(ok)
    \/ AfterClosure

SpecH == Init /\ [][NextH]_vars

(***************************************************************************)
(* ProxyContextMiddleware (proxyserver/middleware/context.go) and the      *)
(* account handlers of the proxy server                                    *)
(***************************************************************************)

\* The most header fields a request or a backend response carries.
MaxHeaders == 2

\* Header names, character by character.  The keys of request.Header and of
\* the headers of a backend response are in the canonical form net/http
\* gives them, and Header.Set stores under the canonical form.
XAccountSysmeta ==
    <<"X", "-", "A", "c", "c", "o", "u", "n", "t", "-", "S", "y", "s",
     "m", "e", "t", "a", "-">>
XContainerSysmeta ==
    <<"X", "-", "C", "o", "n", "t", "a", "i", "n", "e", "r", "-", "S",
     "y", "s", "m", "e", "t", "a", "-">>
XObjectSysmeta ==
    <<"X", "-", "O", "b", "j", "e", "c", "t", "-", "S", "y", "s", "m",
     "e", "t", "a", "-">>
XObjectTransientSysmeta ==
    <<"X", "-", "O", "b", "j", "e", "c", "t", "-", "T", "r", "a", "n",
     "s", "i", "e", "n", "t", "-", "S", "y", "s", "m", "e", "t",
     "a", "-">>
XBackend == 
    <<"X", "-", "B", "a", "c", "k", "e", "n", "d", "-">>
excludeHeaders ==
    <<XAccountSysmeta, XContainerSysmeta, XObjectSysmeta, XObjectTransientSysmeta,
      XBackend>>
XTimestamp == 
    <<"X", "-", "T", "i", "m", "e", "s", "t", "a", "m", "p">>
XTransId == 
    <<"X", "-", "T", "r", "a", "n", "s", "-", "I", "d">>
ContentLength ==
    <<"C", "o", "n", "t", "e", "n", "t", "-", "L", "e", "n", "g", "t", "h">>
XAccountMeta == 
    <<"X", "-", "A", "c", "c", "o", "u", "n", "t", "-", "M", "e", "t",
     "a", "-">>

\* The names a request header carries here: one under each excluded
\* prefix, the prefix X-Backend- itself, X-Backend without the dash,
\* X-Timestamp, a name that X-Timestamp starts, X-Trans-Id and an account
\* metadata name.
ClientNames ==
    {excludeHeaders[i] \o <<"A">> : i \in DOMAIN excludeHeaders}
        \cup {XBackend, SubSeq(XBackend, 1, Len(XBackend) - 1)}
        \cup {XTimestamp, XTimestamp \o <<"s">>, XTransId, XAccountMeta \o <<"A">>}

\* The names the headers of an account server's response carry here.
BackendNames ==
    {XAccountSysmeta \o <<"A">>, XBackend \o <<"A">>, XTimestamp, XTransId,
     XAccountMeta \o <<"A">>}

\* The headers with at most MaxHeaders fields named in names, all of
\* whose values come from origin.
HeadersFrom(names, origin) ==
    UNION {[S -> {origin}] :
             S \in {T \in SUBSET names : Cardinality(T) <= MaxHeaders}}
ClientHeaders == HeadersFrom(ClientNames, "client")
BackendHeaders == HeadersFrom(BackendNames, "backend")

\* strings.HasPrefix(s, prefix)
HasPrefix(s, prefix) ==
    Len(s) >= Len(prefix) /\ SubSeq(s, 1, Len(prefix)) = prefix

\* The test of the two strip loops.
ExcludedExact(k) ==
    \E i \in DOMAIN excludeHeaders : k = excludeHeaders[i] \/ k = XTimestamp
Excluded(k) ==
    \E i \in DOMAIN excludeHeaders : HasPrefix(k, excludeHeaders[i]) \/ k = XTimestamp

\* for k := range h { for _, ex := range excludeHeaders { ... delete(h, k) } }
DeleteExcluded(h) == [k \in {x \in DOMAIN h : ~Excluded(x)} |-> h[k]]

\* h.Set(k, v) with one value
SetHeader(h, k, v) == [x \in DOMAIN h \cup {k} |-> IF x = k THEN v ELSE h[x]]

\* for k := range answered { writer.Header().Set(k, answered.Get(k)) }
SetHeaders(h, from) ==
    [x \in DOMAIN h \cup DOMAIN from |-> IF x \in DOMAIN from THEN from[x] ELSE h[x]]

\* The requests: whether srv.ValidateRequest accepts it, the segments of
\* its path, its method.
Paths == {<<"info">>, <<"healthcheck">>, <<"v1", "a">>, <<"v1", "a", "c">>}
Methods == {"GET", "HEAD", "PUT", "POST", "DELETE"}
HTTPRequests == [valid : BOOLEAN, path : Paths, method : Methods]

\* getPathParts(request): strings.SplitN(path, "/", 5) starts with the
\* empty string before the first slash.
getPathParts(path) ==
    LET parts == <<"">> \o path
        apiRequest == Len(parts) > 1 /\ parts[2] = "v1"
    IN  CASE Len(parts) = 4 ->
               [apiRequest |-> apiRequest, account |-> parts[3], container |-> parts[4]]
          [] Len(parts) = 3 ->
               [apiRequest |-> apiRequest, account |-> parts[3], container |-> ""]
          [] OTHER ->
               [apiRequest |-> apiRequest, account |-> "", container |-> ""]

\* ctx.GetAccountInfo(account): the backend operations it does and whether
\* it returns nil, by what the caches and the backend hold. "cached": the
\* info is in a cache; "found": HeadAccount answers 2xx with counts that
\* parse; "created", "createFailed": HeadAccount answers 404, the account
\* is put and HeadAccount is called again; "failed": any other answer.
AccountLookups == {"cached", "found", "created", "createFailed", "failed"}
GetAccountInfo(lookup) ==
    CASE lookup = "cached" -> [ops |-> <<>>, nil |-> FALSE]
      [] lookup = "found" -> [ops |-> <<"HeadAccount">>, nil |-> FALSE]
      [] lookup = "created" ->
           [ops |-> <<"HeadAccount", "PutAccount", "HeadAccount">>, nil |-> FALSE]
      [] lookup = "createFailed" ->
           [ops |-> <<"HeadAccount", "PutAccount", "HeadAccount">>, nil |-> TRUE]
      [] lookup = "failed" -> [ops |-> <<"HeadAccount">>, nil |-> TRUE]

\* ctx.GetContainerInfo(account, container): HeadContainer unless cached.
GetContainerInfo(cached) == IF cached THEN <<>> ELSE <<"HeadContainer">>

\* The two goroutines ServeHTTP starts and waits for: the operations of
\* the account lookup, whether m.c.PutAccount followed it, the operations
\* of the container lookup.
Prefetch(path, lookup, cached) ==
    LET parts == getPathParts(path)
        info == GetAccountInfo(lookup)
    IN  IF parts.apiRequest /\ parts.account # ""
          THEN [account |-> info.ops, created |-> info.nil,
                container |-> IF parts.container # ""
                                THEN GetContainerInfo(cached) ELSE <<>>]
          ELSE NoPrefetch

\* proxyWriter.WriteHeader(st) with writer.Header() = h
WriteHeader(h, st) ==
    /\ respHeader' = DeleteExcluded(h)
    /\ wire' = [status |-> st, header |-> DeleteExcluded(h)]

\* writer.WriteHeader(st): the writer is the proxyWriter when the request
\* came through the middleware, and the writer of the server otherwise.
WriterWriteHeader(h, st) ==
    IF ctx = "set"
      THEN WriteHeader(h, st)
      ELSE /\ respHeader' = h
           /\ wire' = [status |-> st, header |-> h]

\* srv.StandardResponse(writer, st): the status is written with
\* writer.WriteHeader.
StandardResponse(st) == WriterWriteHeader(respHeader, st)

\* ProxyContextMiddleware.ServeHTTP up to the call of m.next.ServeHTTP
ServeHTTP(req, hdr, dumped, lookup, cached) ==
    /\ xpc = "idle"
    /\ xreq' = req
    /\ clientHeader' = hdr
    /\ IF ~req.valid
         THEN /\ StandardResponse(400)
              /\ reqHeader' = hdr
              /\ xpc' = "responded"
              /\ UNCHANGED <<ctx, authorize, prefetched>>
         ELSE IF req.path = <<"info">> /\ req.method = "GET"
         THEN /\ IF dumped THEN WriterWriteHeader(respHeader, 200) ELSE StandardResponse(500)
              /\ reqHeader' = hdr
              /\ xpc' = "responded"
              /\ UNCHANGED <<ctx, authorize, prefetched>>
         ELSE /\ reqHeader' = SetHeader(SetHeader(DeleteExcluded(hdr), XTransId, "proxy"),
                                        XTimestamp, "proxy")
              /\ respHeader' = SetHeader(respHeader, XTransId, "proxy")
              /\ ctx' = "set"
              /\ authorize' = "nil"
              /\ prefetched' = Prefetch(req.path, lookup, cached)
              /\ xpc' = "forwarded"
              /\ UNCHANGED wire
    /\ UNCHANGED <<backendOps, backendHeader>>
    /\ UNCHANGED <<qvars, fvars, ovars, pvars, cvars, rvars, hvars>>

\* The middlewares between the context middleware and the router: one of
\* them may set ctx.Authorize.
Authorizers == {"nil", "allows", "denies"}
Middlewares(auth) ==
    /\ xpc = "forwarded"
    /\ authorize' = auth
    /\ xpc' = "routed"
    /\ UNCHANGED <<xreq, clientHeader, reqHeader, respHeader, wire, ctx, prefetched,
                   backendOps, backendHeader>>
    /\ UNCHANGED <<qvars, fvars, ovars, pvars, cvars, rvars, hvars>>

\* The router is called on a request that did not pass the context
\* middleware: GetProxyContext(request) will be nil.
WithoutContext(req, hdr) ==
    /\ xpc = "idle"
    /\ req.valid
    /\ xreq' = req
    /\ clientHeader' = hdr
    /\ reqHeader' = hdr
    /\ xpc' = "routed"
    /\ UNCHANGED <<respHeader, wire, ctx, authorize, prefetched, backendOps,
                   backendHeader>>
    /\ UNCHANGED <<qvars, fvars, ovars, pvars, cvars, rvars, hvars>>

\* The handler the router of GetHandler gives a request.
Route(req) ==
    CASE req.path = <<"healthcheck">> /\ req.method = "GET" -> "HealthcheckHandler"
      [] Len(req.path) = 2 /\ req.path[1] = "v1" /\ req.method = "GET" ->
           "AccountGetHandler"
      [] Len(req.path) = 2 /\ req.path[1] = "v1" /\ req.method = "HEAD" ->
           "AccountHeadHandler"
      [] Len(req.path) = 2 /\ req.path[1] = "v1" /\ req.method \in {"PUT", "POST"} ->
           "AccountPutHandler"
      [] Len(req.path) = 2 /\ req.path[1] = "v1" /\ req.method = "DELETE" ->
           "AccountDeleteHandler"
      [] OTHER -> "none"

\* ProxyServer.HealthcheckHandler
HealthcheckHandler ==
    /\ xpc = "routed"
    /\ Route(xreq) = "HealthcheckHandler"
    /\ WriterWriteHeader(SetHeader(respHeader, ContentLength, "proxy"), 200)
    /\ xpc' = "responded"
    /\ UNCHANGED <<xreq, clientHeader, reqHeader, ctx, authorize, prefetched,
                   backendOps, backendHeader>>
    /\ UNCHANGED <<qvars, fvars, ovars, pvars, cvars, rvars, hvars>>

\* ctx.Authorize != nil && !ctx.Authorize(request)
DeniedNever == FALSE
Denied == authorize # "nil" /\ authorize # "allows"

\* What the backend answers a handler's operation.
BackendCodes == {200, 404, 503}

\* An account handler from its first line to the check of ctx.Authorize:
\* what it answers when it returns there, 0 when it goes on.
Refusal == IF ctx = "nil" THEN 500 ELSE IF Denied THEN 401 ELSE 0

\* AccountGetHandler and AccountHeadHandler: the backend operation is
\* server.C.GetAccount or server.C.HeadAccount.
AccountReadHandler(name, operation, code, answered) ==
    /\ xpc = "routed"
    /\ Route(xreq) = name
    /\ IF Refusal # 0
         THEN /\ StandardResponse(Refusal)
              /\ UNCHANGED <<backendOps, backendHeader>>
         ELSE /\ backendOps' = Append(backendOps, operation)
              /\ backendHeader' = answered
              /\ WriterWriteHeader(SetHeaders(respHeader, answered), code)
    /\ xpc' = "responded"
    /\ UNCHANGED <<xreq, clientHeader, reqHeader, ctx, authorize, prefetched>>
    /\ UNCHANGED <<qvars, fvars, ovars, pvars, cvars, rvars, hvars>>

AccountGetHandler(code, answered) ==
    AccountReadHandler("AccountGetHandler", "GetAccount", code, answered)

AccountHeadHandler(code, answered) ==
    AccountReadHandler("AccountHeadHandler", "HeadAccount", code, answered)

\* AccountPutHandler and AccountDeleteHandler: X-Timestamp is set on the
\* request, the backend operation is server.C.PutAccount or
\* server.C.DeleteAccount and its code is the answer.
AccountWriteHandler(name, operation, code) ==
    /\ xpc = "routed"
    /\ Route(xreq) = name
    /\ IF Refusal # 0
         THEN /\ StandardResponse(Refusal)
              /\ UNCHANGED <<backendOps, reqHeader>>
         ELSE /\ reqHeader' = SetHeader(reqHeader, XTimestamp, "proxy")
              /\ backendOps' = Append(backendOps, operation)
              /\ StandardResponse(code)
    /\ xpc' = "responded"
    /\ UNCHANGED <<xreq, clientHeader, ctx, authorize, prefetched, backendHeader>>
    /\ UNCHANGED <<qvars, fvars, ovars, pvars, cvars, rvars, hvars>>

AccountPutHandler(code) == AccountWriteHandler("AccountPutHandler", "PutAccount", code)

AccountDeleteHandler(code) ==
    AccountWriteHandler("AccountDeleteHandler", "DeleteAccount", code)

NextX ==
    \/ /\ xpc = "idle"
       /\ \E req \in HTTPRequests, hdr \in ClientHeaders, dumped \in BOOLEAN,
             lookup \in AccountLookups, cached \in BOOLEAN :
             ServeHTTP(req, hdr, dumped, lookup, cached)
    \/ \E auth \in Authorizers : Middlewares(auth)
    \/ /\ xpc = "idle"
       /\ \E req \in HTTPRequests, hdr \in ClientHeaders : WithoutContext(req, hdr)
    \/ HealthcheckHandler
    \/ /\ xpc = "routed"
       /\ \E code \in BackendCodes, answered \in BackendHeaders :
             AccountGetHandler(code, answered)
    \/ /\ xpc = "routed"
       /\ \E code \in BackendCodes, answered \in BackendHeaders :
             AccountHeadHandler(code, answered)
    \/ \E code \in BackendCodes : AccountPutHandler(code)
    \/ \E code \in BackendCodes : AccountDeleteHandler(code)

SpecX == Init /\ [][NextX]_vars

(***************************************************************************)
(* Properties of quorumResponse                                            *)
(***************************************************************************)

\* ceil(n/2), stated without the code's arithmetic
CeilHalf(n) == CHOOSE q \in 0..n : 2 * q >= n /\ 2 * (q - 1) < n

\* The status a sub-request outcome stands for: its StatusCode, or 500 for a
\* transport failure.
Produced(o) == IF o.err THEN 500 ELSE o.StatusCode

\* How many of the first k outcomes received came from sub-requests whose
\* produced status lies in class c.
ReceivedInClass(c, k) ==
    Cardinality({m \in 1..k : Produced(outcome[arrived[m].from]) \div 100 = c})

AllClasses == 0..9

QReturned == qpc = "returned"

\* Every goroutine of the call is past c.client.Do.
AllComplete == qpc # "idle" /\ \A i \in 1..reqs : gpc[i] # "Do"

\* No class has Q of the outcomes produced by the completed sub-requests.
NoClassReached ==
    \A c \in AllClasses :
        Cardinality({i \in 1..reqs : outcome[i] # NoOutcome
                        /\ Produced(outcome[i]) \div 100 = c}) < CeilHalf(reqs)

\* C1: a status returned by quorumResponse is one produced by some
\* sub-request (a transport failure counting as 500) whose class has at
\* least ceil(R/2) outcomes received at the moment of return, or it is 503
\* with no class having reached ceil(R/2).
C1_QuorumResultSound ==
    QReturned =>
        \/ /\ \E i \in 1..reqs :
                 outcome[i] # NoOutcome /\ Produced(outcome[i]) = qret
           /\ ReceivedInClass(qret \div 100, Len(arrived)) >= CeilHalf(reqs)
        \/ /\ qret = 503
           /\ \A c \in AllClasses :
                 ReceivedInClass(c, Len(arrived)) < CeilHalf(reqs)

\* C1 witness: three sub-requests, the third outcome received closes a 4xx
\* majority and 404 is returned.
C1_Witness ==
    QReturned /\ reqs = 3 /\ Len(arrived) = 3 /\ qret = 404

\* C2 (as claimed): when all R sub-requests have completed and no class
\* reached ceil(R/2), quorumResponse returns, and returns 503: it has either
\* returned 503 or can still take a step.
C2_NoQuorumReturns503 ==
    (AllComplete /\ NoClassReached) =>
        (QReturned /\ qret = 503) \/ ENABLED NextQ

\* The received outcome that is the first one whose status has a class
\* counter (status below 600); 0 when there is none.
FirstCounted ==
    LET ks == {k \in 1..Len(arrived) : arrived[k].status < 600}
    IN  IF ks = {} THEN 0 ELSE CHOOSE k \in ks : \A m \in ks : k <= m

\* The part of C3 that holds as claimed: the dispatcher has returned exactly
\* when some class has ceil(R/2) received outcomes, the last outcome received
\* is the one that brought its class to ceil(R/2), and its status is the
\* result.
C3_ReturnsOnClosingArrival ==
    /\ qpc = "range" =>
          \A c \in 0..5 : ReceivedInClass(c, Len(arrived)) < CeilHalf(reqs)
    /\ QReturned =>
          LET n == Len(arrived)
              last == arrived[n]
              c == Produced(outcome[last.from]) \div 100
          IN  /\ n >= 1
              /\ qret = Produced(outcome[last.from])
              /\ ReceivedInClass(c, n) = CeilHalf(reqs)
              /\ ReceivedInClass(c, n - 1) < CeilHalf(reqs)

\* After the return nothing is received and the result does not change.
C3_LaterDiscarded ==
    QReturned => /\ qpc' = qpc
                 /\ qret' = qret
                 /\ arrived' = arrived
                 /\ responseClasses' = responseClasses

\* C3 (as claimed): quorumResponse returns at the first moment a class
\* reaches ceil(R/2), with the status of the arrival that closed it; later
\* outcomes change nothing; and with R=2 the first outcome to arrive is the
\* result.
C3_Original ==
    /\ [](C3_ReturnsOnClosingArrival)
    /\ [][C3_LaterDiscarded]_vars
    /\ []((reqs = 2 /\ QReturned) =>
             (Len(arrived) = 1 /\ qret = Produced(outcome[arrived[1].from])))

\* C3 (amended): as claimed, except that with R=2 the result is the first
\* outcome to arrive whose status is below 600 (a status of 600 or more has
\* no class counter and is skipped).
C3_ClosingArrivalWins ==
    /\ [](C3_ReturnsOnClosingArrival)
    /\ [][C3_LaterDiscarded]_vars
    /\ []((reqs = 2 /\ FirstCounted > 0) =>
             (QReturned /\ qret = Produced(outcome[arrived[FirstCounted].from])))
    /\ []((reqs = 2 /\ QReturned) => FirstCounted = Len(arrived))

\* C3 witness: R=3, a 503 and then a 500 were received around a 200; the 500
\* closed the 5xx majority and is the result, and the dispatcher returned
\* with one goroutine's outcome never received.
C3_Witness ==
    /\ QReturned /\ reqs = 3 /\ Len(arrived) = 3
    /\ arrived[1].status = 503 /\ arrived[2].status = 200
    /\ arrived[3].status = 500 /\ qret = 500

C5_TransportFailureIs500 ==
    /\ \A k \in 1..Len(arrived) :
          outcome[arrived[k].from].err => arrived[k].status = 500
    /\ qpc # "idle" => responseClasses[5] = ReceivedInClass(5, Len(arrived))
    /\ (reqs = 3 /\ {outcome[i] : i \in 1..reqs}
                      = {Response(500), Response(503), TransportFailure}) =>
          /\ Len(arrived) >= 2 <=> QReturned
          /\ QReturned =>
                /\ qret = Produced(outcome[arrived[2].from])
                /\ qret \in {500, 503}

\* C5 witness: the transport failure arrived first, then the 503, which is
\* the result; the 500 response completed without being received.
C5_Witness ==
    /\ QReturned /\ reqs = 3 /\ Len(arrived) = 2
    /\ {outcome[i] : i \in 1..reqs}
          = {Response(500), Response(503), TransportFailure}
    /\ outcome[arrived[1].from].err
    /\ qret = 503

\* C6 (as claimed): with R=1 a transport failure of the single sub-request
\* gives 503, and a single 2xx, 4xx or 5xx response is returned unchanged.
C6_Original ==
    (reqs = 1 /\ gpc[1] # "Do") =>
        /\ outcome[1].err => (Len(arrived) = 1 => QReturned /\ qret = 503)
        /\ (~outcome[1].err /\ outcome[1].StatusCode \div 100 \in {2, 4, 5}) =>
              (Len(arrived) = 1 => QReturned /\ qret = outcome[1].StatusCode)

\* C6 (amended): with R=1 a transport failure of the single sub-request
\* gives 500, and a single 2xx, 4xx or 5xx response is returned unchanged.
C6_SingleReplica ==
    (reqs = 1 /\ gpc[1] # "Do") =>
        /\ outcome[1].err => (Len(arrived) = 1 => QReturned /\ qret = 500)
        /\ (~outcome[1].err /\ outcome[1].StatusCode \div 100 \in {2, 4, 5}) =>
              (Len(arrived) = 1 => QReturned /\ qret = outcome[1].StatusCode)
        /\ QReturned => Len(arrived) = 1

\* C6 witness: R=1, the sub-request failed at the transport level and the
\* call returned.
C6_Witness ==
    reqs = 1 /\ QReturned /\ outcome[1].err /\ qret = 500

\* C7: once quorumResponse has returned, every goroutine that has not
\* delivered its status ends (it does not stay blocked on statusCodes), and
\* the body of every response a sub-request received is closed, whether the
\* response came before or after the return.
C7_GoroutinesEndBodiesClosed ==
    /\ [](\A i \in 1..reqs :
             (outcome[i] # NoOutcome /\ ~outcome[i].err) => i \in bodyClosed)
    /\ (QReturned ~> (\A i \in 1..reqs : gpc[i] = "done"))

\* C7 witness: R=3 returned after two outcomes; the third goroutine got its
\* response after the return, closed the body and ended without delivering.
C7_Witness ==
    /\ QReturned /\ reqs = 3 /\ Len(arrived) = 2
    /\ \A i \in 1..3 : gpc[i] = "done"
    /\ \E i \in 1..3 :
          /\ \A k \in 1..2 : arrived[k].from # i
          /\ ~outcome[i].err
          /\ i \in bodyClosed

(***************************************************************************)
(* Properties of firstResponse                                             *)
(***************************************************************************)

FReturned == fpc = "returned"

Is2xx(code) == code \div 100 = 2

\* The positions of flog that hold an event of kind e, among the first k.
Events(e, k) == {m \in 1..k : flog[m].ev = e}

\* C8 (as claimed): firstResponse returns a 2xx response if and only if one
\* of the R sub-requests produced a 2xx response; otherwise it returns nil.
C8_FirstResponseIff2xx ==
    FReturned =>
        /\ (resp # Nil /\ Is2xx(resp.StatusCode)) <=>
              (\E i \in 1..freqs : ~fresp[i].err /\ Is2xx(fresp[i].StatusCode))
        /\ ~(resp # Nil /\ Is2xx(resp.StatusCode)) => resp = Nil

\* C9: sub-requests are launched in ring order; each launch after the first
\* directly follows a wait that began at the previous launch and ended with
\* a response received from a launched sub-request or with a full second
\* elapsed; so the launches never outnumber the ended waits by more than one.
C9_StaggeredLaunch ==
    /\ fpc # "idle" => \A i \in 1..freqs : fg[i] # "new" <=> i <= launched
    /\ \A k \in 1..Len(flog) :
          flog[k].ev = "launch" =>
             /\ flog[k].i = Cardinality(Events("launch", k))
             /\ k > 1 =>
                   LET prev == CHOOSE m \in Events("launch", k - 1) :
                                  \A x \in Events("launch", k - 1) : x <= m
                   IN  /\ prev = k - 2
                       /\ \/ /\ flog[k - 1].ev = "recv"
                             /\ flog[k - 1].i < flog[k].i
                             /\ flog[k - 1].at - flog[prev].at <= TicksPerSecond
                          \/ /\ flog[k - 1].ev = "timeout"
                             /\ flog[k - 1].at - flog[prev].at = TicksPerSecond
    /\ launched = Cardinality(Events("launch", Len(flog)))
    /\ launched <= Cardinality(Events("recv", Len(flog)))
                     + Cardinality(Events("timeout", Len(flog))) + 1

\* C9 witness: three launches, the second after a one-second timeout, the
\* third after a response was received.
C9_Witness ==
    /\ launched = 3 /\ Len(flog) >= 5
    /\ flog[2].ev = "timeout"
    /\ flog[4].ev = "recv"
    /\ flog[5].ev = "launch" /\ flog[5].i = 3

\* C10: a non-2xx response or a transport failure received while
\* sub-requests remain unlaunched is followed by the launch of the next one,
\* not by a return; nil is returned only when all R have been launched.
C10_SearchContinues ==
    /\ \A k \in 1..Len(flog) :
          (/\ flog[k].ev = "recv"
           /\ ~Is2xx(flog[k].code)
           /\ Cardinality(Events("launch", k)) < freqs) =>
             /\ k < Len(flog)
             /\ flog[k + 1].ev = "launch"
             /\ flog[k + 1].i = Cardinality(Events("launch", k)) + 1
    /\ (FReturned /\ resp = Nil) =>
          /\ launched = freqs
          /\ \A i \in 1..freqs : fg[i] # "new"
    /\ (FReturned /\ launched < freqs) => Is2xx(resp.StatusCode)

\* C10 witness: R=3; a 404 and a transport failure were received with
\* sub-requests still unlaunched, each followed by the next launch, and nil
\* was returned after the third launch.
C10_Witness ==
    /\ FReturned /\ resp = Nil /\ freqs = 3 /\ Len(flog) >= 5
    /\ flog[2].ev = "recv" /\ flog[2].code = 404
    /\ flog[4].ev = "recv" /\ flog[4].code = 0
    /\ flog[5].ev = "launch"

\* The responses whose body firstResponse or one of its goroutines has
\* closed with Body.Close: the function holds no such call.
ClosedByFirstResponse == {}

\* C12 (as claimed): after firstResponse has returned, every goroutine still
\* running ends (it ends or can still take a step), and once they have ended
\* every response that is not the one handed to the caller has its body
\* closed, or its request cancelled through r.Cancel.
C12_LosersEndBodiesClosed ==
    FReturned =>
        /\ (\A i \in 1..freqs : fg[i] \in {"new", "done"}) \/ ENABLED NextF
        /\ (\A i \in 1..freqs : fg[i] \in {"new", "done"}) =>
              \A i \in 1..freqs :
                 (fg[i] = "done" /\ ~fresp[i].err /\ resp.from # i) =>
                    i \in ClosedByFirstResponse \cup rcancel

(***************************************************************************)
(* Claims about the proxy operations                                       *)
(***************************************************************************)

OpReturned == opc = "returned"
ChildTierWrites == {"PutContainer", "DeleteContainer", "PutObject", "PostObject",
                    "DeleteObject"}
ReadOps == {"GetAccount", "HeadAccount", "GetContainer", "HeadContainer",
            "GetObject", "GrepObject", "HeadObject"}
WriteOps == Ops \ ReadOps

\* The devices the requests built so far are for.
BuiltFor == {oreqs[k].dev : k \in 1..Len(oreqs)}

\* C11: a GET, HEAD or GREP operation of any tier whose firstResponse
\* yielded no 2xx response (nil) returns status 404 with a nil header map
\* and a nil body.
C11_NoSuccessIs404 ==
    (OpReturned /\ op \in ReadOps /\ dres.from = 0) =>
        (oret.status = 404 /\ oret.header = 0 /\ oret.body = 0)

C11_Witness ==
    /\ OpReturned
    /\ op = "GrepObject"
    /\ nodes = 3
    /\ dres = Nil
    /\ oret.status = 404

\* C17: in PutContainer, DeleteContainer, PutObject, PostObject and
\* DeleteObject the request built for the device at index i of the
\* operation's ring carries the parent partition and the address and device
\* name of the parent ring's device at the same index i, also when the
\* request for an earlier device was skipped.
C17_ParentHeadersByIndex ==
    op \in ChildTierWrites =>
        \A k \in 1..Len(oreqs) :
            LET i == oreqs[k].dev
                h == oreqs[k].hdr
            IN  /\ h.Tier = (IF op \in ContainerOps THEN "Account" ELSE "Container")
                /\ h.Partition = parentPartition
                /\ i \in 1..Len(parentDevices)
                /\ h.Host = <<parentDevices[i].Ip, parentDevices[i].Port>>
                /\ h.Device = parentDevices[i].Device

C17_Witness ==
    /\ op = "PutObject"
    /\ opc = "dispatch"
    /\ parentPartition # partition
    /\ \E k \in 1..Len(oreqs) : oreqs[k].dev > k

\* C18 (as claimed): a child-tier write whose parent ring gives fewer
\* devices than its own ring does not fault.
C18_ShortParentRingGuarded ==
    (op \in ChildTierWrites /\ badUrl = {} /\ Len(parentDevices) < nodes) =>
        opc # "fault"

\* C19: an operation calls Do at most once per request, builds at most one
\* request per device of nodes(partition), and a write whose requests can
\* all be constructed issues exactly one per device: R in all.
C19_OneRequestPerDevice ==
    /\ \A j \in 1..Len(issued) : issued[j] <= 1
    /\ Len(oreqs) <= nodes
    /\ \A j, k \in 1..Len(oreqs) : j < k => oreqs[j].dev < oreqs[k].dev
    /\ BuiltFor \subseteq 1..nodes
    /\ (op \in WriteOps /\ badUrl = {} /\ opc \in {"dispatch", "returned"}) =>
          /\ Len(oreqs) = nodes
          /\ (\A j \in 1..nodes : issued[j] = 1) \/ ENABLED (\E j \in 1..nodes : IssueDo(j))

C19_Witness ==
    /\ OpReturned
    /\ op = "DeleteObject"
    /\ nodes = 3
    /\ oret.status = 503
    /\ \A j \in 1..nodes : issued[j] = 1

\* C20 (as claimed): when constructing the request for a replica fails, the
\* operation, whatever its verb and tier, does not fault, and the requests it
\* hands to its dispatcher are those of the other replicas.
C20_ConstructionFailureSkipped ==
    (op \in Ops /\ badUrl # {}
        /\ (op \in ChildTierWrites => Len(parentDevices) >= nodes)) =>
        /\ opc # "fault"
        /\ opc \in {"dispatch", "returned"} => BuiltFor = (1..nodes) \ badUrl

(***************************************************************************)
(* Claims about PutObject's transfer                                       *)
(***************************************************************************)

\* How many Close calls the write end of pipe p has had.
CloseCalls(p) ==
    (IF p \in tclosed THEN 1 ELSE 0) + (IF p \in dclosed THEN 1 ELSE 0)

\* The source has been read to its end: EOF or an error of its own.
SourceOver == copyEnd \in {"EOF", "srcerr"}

WriterPipes == {writers[g] : g \in 1..Len(writers)}

\* C13 (as claimed): the write end of every pipe PutObject created is closed
\* no more than once, and not before the source has been exhausted or has
\* returned an error.
C13_ClosedOnceAfterSource ==
    \A p \in 1..pipes :
        /\ CloseCalls(p) <= 1
        /\ CloseCalls(p) >= 1 => SourceOver

\* C14 (as claimed): whatever the number of replicas, the transfer
\* goroutine does not fault, and when it has ended every pipe write-end is
\* closed.
C14_TransferRunsToEnd ==
    /\ tpc # "panic"
    /\ tpc = "done" => WriterPipes \subseteq tclosed

\* C15 (as claimed): for every R, no replica pipe is more than one chunk
\* ahead of another, and when the next chunk is about to be accepted every
\* replica pipe has received all the chunks accepted so far.
C15_LockStepFanOut ==
    /\ \A p, q \in WriterPipes : received[p] - received[q] <= 1
    /\ (tpc = "read" /\ ~failed) => \A p \in WriterPipes : received[p] = accepted

\* C16: once a pipe write has failed no further chunk is written to any
\* pipe, the copy is over and the pipe write-ends are closed (they are, or
\* the closing step is the one to come); and what PutObject returns is what
\* quorumResponse returned, a status produced by a sub-request whose class
\* has ceil(R/2) of the outcomes received.
C16_WriteFailureAborts ==
    /\ lateWrites = 0
    /\ failed =>
          /\ copyEnd = "writeerr"
          /\ \/ tpc = "done" /\ WriterPipes \subseteq tclosed
             \/ tpc = "close" /\ ENABLED CloseWriters
    /\ ppc = "returned" =>
          /\ pret = qret
          /\ \E i \in 1..reqs : outcome[i] # NoOutcome /\ Produced(outcome[i]) = pret
          /\ ReceivedInClass(pret \div 100, Len(arrived)) >= CeilHalf(Len(writers))

C16_Witness ==
    /\ failed
    /\ tpc = "done"
    /\ ppc = "returned"
    /\ pret = 200
    /\ Len(writers) = 3
    /\ \E p \in WriterPipes : received[p] = 1 /\ accepted = 1

(***************************************************************************)
(* Claims about the quorum of a write with a skipped replica and about    *)
(* what a read returns                                                     *)
(***************************************************************************)

\* C21 (as claimed): in a PutObject some of whose requests could not be
\* constructed, the quorum the dispatcher works with is ceil(R/2) for the R
\* devices the ring gave.
C21_QuorumOverRingDevices ==
    (ppc # "idle" /\ qpc # "idle") => quorum = CeilHalf(pipes)

\* What a read operation returns on the response firstResponse returned.
ReadStatus == ReadResult("GetObject", resp).status

\* Every launched request has been answered, each with the status s.
AllAnswered(s) ==
    /\ launched = freqs
    /\ \A i \in 1..freqs : fresp[i] = Response(s)

\* C22 (as claimed): a backend error status is surfaced verbatim: a write
\* that returns a 4xx/5xx returns one that a sub-request of the majority
\* class produced, and a read whose replicas all answer with the same error
\* status returns that status.
C22_ErrorStatusSurfaced ==
    /\ (QReturned /\ qret \div 100 \in {4, 5}) =>
          /\ \E i \in 1..reqs : outcome[i] # NoOutcome /\ Produced(outcome[i]) = qret
          /\ ReceivedInClass(qret \div 100, Len(arrived)) >= CeilHalf(reqs)
    /\ \A s \in {404, 503} : (FReturned /\ AllAnswered(s)) => ReadStatus = s

\* C28: a response firstResponse returns, when not nil, has a 2xx status and
\* is the one a launched sub-request produced; so what a GET, HEAD or GREP
\* returns is a 2xx status that a replica produced, or 404.
C28_ReadIs2xxOrNotFound ==
    FReturned =>
        /\ resp # Nil =>
              /\ resp.StatusCode \div 100 = 2
              /\ resp.from \in 1..launched
              /\ fresp[resp.from] = Response(resp.StatusCode)
        /\ \A o \in ReadOps :
              LET st == ReadResult(o, resp).status
              IN  \/ st = 404
                  \/ /\ st \div 100 = 2
                     /\ \E i \in 1..launched : fresp[i] = Response(st)

C28_Witness ==
    /\ FReturned
    /\ freqs = 3
    /\ resp = [from |-> 2, StatusCode |-> 200]
    /\ fresp[1] = Response(503)
    /\ ReadStatus = 200

\* C29: the quorum decision runs beside the copy, and once PutObject has
\* returned the transfer goroutine is never blocked: it has come to its end
\* (or has faulted on its writers, which is not a blocked write) or its next
\* step can be taken; in particular a pipe write it is in returns with an
\* error, the deferred Close calls having closed the pipe.
C29_TransferReleased ==
    ppc = "returned" =>
        /\ tpc \in {"done", "panic"} \/ ENABLED TransferStep
        /\ tpc = "write" => ENABLED WriteFails

\* The same as a temporal property of the fair specification: PutObject
\* having returned, the transfer goroutine comes to its end.
TransferEnds == (ppc = "returned") ~> (tpc \in {"done", "panic"})

\* C29 witness: PutObject returns, on quorumResponse's value, while the
\* transfer goroutine is in a pipe write with a chunk of the source in hand.
C29_Witness ==
    /\ ppc = "returned"
    /\ tpc = "write"
    /\ accepted >= 1
    /\ \E p \in WriterPipes : received[p] >= 1

\* C26 (as claimed): every header the caller supplied, with all of its
\* values, is on every sub-request the operation built.
C26_CallerHeadersOnEveryRequest ==
    \A k \in 1..Len(oreqs) :
        \A key \in DOMAIN headers :
            /\ key \in DOMAIN oreqs[k].headers
            /\ oreqs[k].headers[key] = headers[key]

(***************************************************************************)
(* mkquery and directClient                                                *)
(***************************************************************************)

\* The pieces of s between the separators c.
RECURSIVE Split(_, _)
Split(s, c) ==
    IF \E i \in 1..Len(s) : s[i] = c
      THEN LET i == CHOOSE i \in 1..Len(s) : s[i] = c /\ \A j \in 1..(i - 1) : s[j] # c
           IN  <<SubSeq(s, 1, i - 1)>> \o Split(SubSeq(s, i + 1, Len(s)), c)
      ELSE <<s>>

\* The character %XX stands for.
HexChar(x, y) ==
    CASE <<x, y>> = <<"2", "6">> -> "&"
      [] <<x, y>> = <<"3", "D">> -> "="
      [] <<x, y>> = <<"2", "B">> -> "+"
      [] OTHER -> "?"

\* The string a query-escaped string stands for: '+' is a space, %XX a
\* character.
RECURSIVE Unescape(_)
Unescape(s) ==
    IF s = <<>> THEN <<>>
    ELSE IF Head(s) = "+" THEN <<" ">> \o Unescape(Tail(s))
    ELSE IF Head(s) = "%" /\ Len(s) >= 3
           THEN <<HexChar(s[2], s[3])>> \o Unescape(SubSeq(s, 4, Len(s)))
    ELSE <<Head(s)>> \o Unescape(Tail(s))

\* The key and the value of one key=value piece.
ParsePair(piece) ==
    LET kv == Split(piece, "=")
        k == kv[1]
        v == IF Len(kv) = 1 THEN <<>> ELSE SubSeq(piece, Len(k) + 2, Len(piece))
    IN  <<Unescape(k), Unescape(v)>>

\* The key/value pairs a server parses out of a query string, in order:
\* the text after '?' is cut at every '&', and empty pieces are skipped.
RECURSIVE ParsePieces(_)
ParsePieces(pieces) ==
    IF pieces = <<>> THEN <<>>
    ELSE (IF Head(pieces) = <<>> THEN <<>> ELSE <<ParsePair(Head(pieces))>>)
         \o ParsePieces(Tail(pieces))
ParseQuery(query) ==
    IF query = <<>> THEN <<>>
    ELSE ParsePieces(Split(IF Head(query) = "?" THEN Tail(query) ELSE query, "&"))

\* The options whose value is not "".
NonEmpty(options) == {k \in DOMAIN options : options[k] # <<>>}

\* A query string has been built from coptions.
QueryBuilt == cpc \in {"called", "returned"} /\ cmethod \in Listings \cup {"mkquery"}

\* C25: the query string built from a set of options holds exactly the
\* options whose value is not empty, each once, and parsing it recovers
\* their keys and values; a listing of directClient always has format=json
\* and has limit exactly when the limit is not 0; with no non-empty option
\* the query string is empty.
C25_QueryRoundTrip ==
    QueryBuilt =>
        LET parsed == ParseQuery(cquery)
            keys == NonEmpty(coptions)
        IN  /\ Len(parsed) = Cardinality(keys)
            /\ {parsed[i][1] : i \in DOMAIN parsed} = keys
            /\ \A i \in DOMAIN parsed : parsed[i][2] = coptions[parsed[i][1]]
            /\ keys = {} <=> cquery = <<>>
            /\ keys # {} => Head(cquery) = "?"
            /\ cmethod \in Listings =>
                  /\ <<FormatKey, <<"j", "s", "o", "n">>>> \in
                        {parsed[i] : i \in DOMAIN parsed}
                  /\ (\E i \in DOMAIN parsed : parsed[i][1] = LimitKey) <=> climit # 0
                  /\ climit # 0 =>
                        <<LimitKey, Itoa(climit)>> \in {parsed[i] : i \in DOMAIN parsed}

\* A listing with a limit, a marker that needs escaping and an empty prefix
\* has built its query; so has mkquery from a value that needs escaping and
\* an empty one (witnessed by the first).
C25_Witness ==
    /\ cpc = "called"
    /\ cmethod = "GetContainer"
    /\ climit # 0
    /\ coptions[MarkerKey] = <<"&", " ">>
    /\ coptions[PrefixKey] = <<>>
    /\ coptions[DelimiterKey] = <<"+">>

\* mkquery was given only empty values and returned "".
C25_WitnessEmpty ==
    /\ cpc = "returned"
    /\ cmethod = "mkquery"
    /\ DOMAIN coptions # {}
    /\ NonEmpty(coptions) = {}
    /\ cquery = <<>>

\* A method of directClient has returned.
FacadeReturned == cpc = "returned" /\ cmethod \in FacadeMethods

\* C23: a method of directClient returns the error carrying the status
\* exactly when the status is not 2xx, and no error for every 2xx status.
C23_ErrorIffNot2xx ==
    FacadeReturned =>
        /\ cret.err # NoError <=> ccode \div 100 # 2
        /\ cret.err # NoError => cret.err = HTTPError(ccode)

\* A body that cannot be decoded as JSON.
NotJSON == {"truncated", "garbage"}

\* C24: a listing whose successful response has a body that is not JSON
\* returns the empty list, the response's headers and no error.
C24_UndecodableListingIsEmpty ==
    FacadeReturned /\ cmethod \in Listings /\ ~Fails(cmethod, ccode) /\ cbody \in NotJSON =>
        /\ cret.list = <<>>
        /\ cret.headers
        /\ cret.err = NoError

\* GetContainer returned on status 200 with a body cut short.
C24_Witness ==
    /\ FacadeReturned
    /\ cmethod = "GetContainer"
    /\ ccode = 200
    /\ cbody = "truncated"
    /\ cret = [err |-> NoError, list |-> <<>>, headers |-> TRUE]

(***************************************************************************)
(* ReplicationManager                                                      *)
(***************************************************************************)

\* The sessions whose Begin returned true and that have not called Done.
ActiveSessions == {s \in Sessions : rpc[s] = "active"}
ActiveOn(d) == {s \in ActiveSessions : device[s] = d}

\* C27: in every state of the ReplicationManager, the sessions whose Begin
\* returned true and that have not yet called Done are at most limitPerDisk
\* on each device and at most limitOverall in all.
C27_SessionsWithinLimits ==
    constructed =>
        /\ \A d \in Devices : Cardinality(ActiveOn(d)) <= limitPerDisk
        /\ Cardinality(ActiveSessions) <= limitOverall

\* A session is active on a device whose channel is full while another
\* session's Begin waits to send on it.
C27_Witness ==
    \E s, w \in Sessions :
        /\ rpc[s] = "active"
        /\ rpc[w] = "loop"
        /\ device[w] = device[s]
        /\ limitPerDisk > 0
        /\ devSem[device[s]] = limitPerDisk
        /\ ~CanSend(devSem[device[w]], limitPerDisk)

\* Begin returns false to session s in this step.
ReturnsFalse(s) == rpc[s] # "refused" /\ rpc'[s] = "refused"

\* Begin returns true to session s in this step.
ReturnsTrue(s) == rpc[s] # "active" /\ rpc'[s] = "active"

C30_Return ==
    \A s \in Sessions :
        /\ ReturnsFalse(s) =>
              /\ timeoutTick[s]
              /\ heldDev'[s] = 0
              /\ heldTotal'[s] = 0
        /\ ReturnsTrue(s) =>
              /\ heldDev'[s] = 1
              /\ heldTotal'[s] = 1
              /\ devSem'[device[s]] >= 1
              /\ totalSem' >= 1

\* C30: a Begin that returns false returns on a tick of its timeout ticker
\* and holds no element of the device's channel or of totalSem; a Begin
\* that returns true holds exactly one element of its device's channel and
\* one of totalSem.
C30_BeginHolds == [][C30_Return]_vars

\* Begin returned true to one session and then false to a session on another
\* device, with every overall slot taken.
C30_Witness ==
    \E s, w \in Sessions :
        /\ rpc[s] = "active"
        /\ rpc[w] = "refused"
        /\ device[w] # device[s]
        /\ totalSem = limitOverall
        /\ heldDev[w] = 0
        /\ heldDev[s] = 1

\* No call of Begin or Done is in progress.
Quiescent == \A s \in Sessions : rpc[s] \in {"idle", "refused", "finished"}

\* C31: with every Done called by a session whose Begin returned true for
\* the same device, under any interleaving, the receives of Done never
\* block, so that the lock Done holds is released; and once every session
\* has done its Done and no Begin is in progress both semaphores are empty.
C31_DoneNeverBlocks ==
    /\ \A s \in Sessions :
          /\ rpc[s] = "recvDev" => devSem[device[s]] > 0 /\ ENABLED DoneRecvDev(s)
          /\ rpc[s] = "recvTotal" => totalSem > 0 /\ ENABLED DoneRecvTotal(s)
          /\ rpc[s] = "unlock" => ENABLED DoneUnlock(s)
          /\ lock = s => rpc[s] \in {"recvDev", "recvTotal", "unlock"}
    /\ Quiescent =>
          /\ lock = Unlocked
          /\ totalSem = 0
          /\ \A d \in DOMAIN devSem : devSem[d] = 0

\* Every session has been through Begin and Done on the same device, and
\* the semaphores are empty.
C31_Witness ==
    /\ \A s \in Sessions : rpc[s] = "finished"
    /\ \A s, w \in Sessions : device[s] = device[w]
    /\ totalSem = 0

(***************************************************************************)
(* Replicator.objRepConnHandler                                            *)
(***************************************************************************)

\* The handler has returned.
HandlerReturned == hpc = "returned"

\* Done is called once, for the device Begin was called with, by the time
\* the handler returns and not before; never if Begin returned false.
DonePaired ==
    /\ began = "true" =>
          doneCalls = IF HandlerReturned THEN <<brr.Device>> ELSE <<>>
    /\ began # "true" => doneCalls = <<>>

\* The handler whose Begin returned false has done no hashing and no file
\* operation.
RefusedDoesNothing == began = "false" => hashOps = 0 /\ fileEvents = <<>>

\* C32: every Begin that returns true is followed by exactly one Done for
\* the same device on every path out of the handler; when Begin returns
\* false the handler answers 503 and does neither Done nor any hashing or
\* file operation.
C32_BeginDone ==
    /\ DonePaired
    /\ RefusedDoesNothing
    /\ HandlerReturned /\ began = "false" => WireStatus = 503

\* The part of C32 about Done, hashing and file operations.
C32_DonePairedNothingDone == DonePaired /\ RefusedDoesNothing

\* The events and messages of the request being handled.
FileEventSet == {fileEvents[i] : i \in DOMAIN fileEvents}
SentMessages == {responses[i].msg : i \in {j \in DOMAIN responses : responses[j].sent}}

\* The request being handled is a ping, has an invalid path, names a file
\* that exists or is older than a data or meta file, or is check-only.
AnswerOnly ==
    /\ sfr # NoRequest
    /\ ~sfr.Done
    /\ \/ sfr.Ping
       \/ sfr.Path.ext \notin {"data", "ts", "meta"}
       \/ sfr.Path.hashLen # 32
       \/ onDisk.exists
       \/ Less([ts |-> sfr.Name, ext |-> sfr.Path.ext], onDisk.dataFile)
       \/ Less([ts |-> sfr.Name, ext |-> sfr.Path.ext], onDisk.metaFile)
       \/ sfr.Check

\* The closure has returned for the request being handled.
ClosureOver == hpc \in {"closureReturned", "returned"} /\ cerr # "none"

\* C33: a file is saved only after the go-ahead was sent for the request
\* and as many bytes as it declares were received; a request that is a
\* ping, has an invalid path, names an existing file, is older than an
\* existing data or meta file or is check-only gets one response and no
\* file is made or changed for it; the session loop ends only on a Done
\* message or an error.
C33_SaveAfterGoAhead ==
    /\ "Save" \in FileEventSet =>
          /\ "go ahead" \in SentMessages
          /\ "CopyN" \in FileEventSet
          /\ got = sfr.Size
    /\ AnswerOnly =>
          /\ fileEvents = <<>>
          /\ hpc \in {"verdict", "closureReturned", "returned"}
          /\ ClosureOver => Len(responses) = 1
    /\ exitOn # "none" =>
          /\ HandlerReturned
          /\ \/ exitOn = "replicationDone" /\ sfr.Done
             \/ exitOn = "error"
    /\ HandlerReturned /\ cerr # "none" => exitOn # "none"

\* The second request of a session declared the greatest size, and its
\* file has been saved.
C33_Witness ==
    /\ nreq = 1
    /\ sfr.Size = MaxSize
    /\ "Save" \in FileEventSet
    /\ got = MaxSize

(***************************************************************************)
(* ProxyContextMiddleware and the account handlers                         *)
(***************************************************************************)

\* The name starts with X-Account-Sysmeta-, X-Container-Sysmeta-,
\* X-Object-Sysmeta-, X-Object-Transient-Sysmeta- or X-Backend-.
SysmetaOrBackend(k) ==
    \/ HasPrefix(k, XAccountSysmeta)
    \/ HasPrefix(k, XContainerSysmeta)
    \/ HasPrefix(k, XObjectSysmeta)
    \/ HasPrefix(k, XObjectTransientSysmeta)
    \/ HasPrefix(k, XBackend)

\* The fields of a header that are neither sysmeta or backend fields nor
\* X-Timestamp nor X-Trans-Id.
Public(h) ==
    [k \in {x \in DOMAIN h : ~SysmetaOrBackend(x) /\ x \notin {XTimestamp, XTransId}}
       |-> h[k]]

\* C34: the request the context middleware forwards has no header whose
\* name starts with one of the five prefixes, its X-Timestamp was set by the
\* proxy, and its headers are those the client sent under other names
\* together with the proxy's X-Trans-Id and X-Timestamp, so they do not
\* depend on what the client sent under the excluded names; the headers
\* written with the status of the response have no such name either.
C34_ExcludedHeadersStripped ==
    /\ xpc = "forwarded" =>
          /\ \A k \in DOMAIN reqHeader : ~SysmetaOrBackend(k)
          /\ XTimestamp \in DOMAIN reqHeader
          /\ reqHeader[XTimestamp] = "proxy"
          /\ Public(reqHeader) = Public(clientHeader)
          /\ \A k \in DOMAIN reqHeader \ DOMAIN Public(reqHeader) :
                reqHeader[k] = "proxy"
    /\ wire.status # 0 => \A k \in DOMAIN wire.header : ~SysmetaOrBackend(k)

\* The client sent a backend header and an X-Timestamp, the request was
\* forwarded, and the account server's answer carried a sysmeta and a
\* backend header when the handler wrote the status.
C34_Witness ==
    /\ xpc = "responded"
    /\ ctx = "set"
    /\ DOMAIN clientHeader = {XBackend \o <<"A">>, XTimestamp}
    /\ DOMAIN backendHeader = {XAccountSysmeta \o <<"A">>, XBackend \o <<"A">>}
    /\ wire.status = 200

\* The account handlers.
AccountHandlers ==
    {"AccountGetHandler", "AccountHeadHandler", "AccountPutHandler",
     "AccountDeleteHandler"}

\* C35: an account handler does no backend operation and answers 500 when
\* the request has no proxy context, does none and answers 401 when an
\* authorize function is set and denies the request, and does a backend
\* operation only when there is a context and no authorize function denies.
C35_ChecksBeforeBackend ==
    /\ xpc = "responded" /\ xreq.valid /\ Route(xreq) \in AccountHandlers =>
          /\ ctx = "nil" => backendOps = <<>> /\ wire.status = 500
          /\ ctx = "set" /\ authorize = "denies" =>
                backendOps = <<>> /\ wire.status = 401
          /\ ctx = "set" /\ authorize # "denies" => Len(backendOps) = 1
    /\ backendOps # <<>> =>
          /\ xpc = "responded"
          /\ ctx = "set"
          /\ authorize # "denies"

\* A PUT of an account was denied by the authorize function after the
\* middleware had looked the account up.
C35_Witness ==
    /\ xpc = "responded"
    /\ xreq.method = "PUT"
    /\ authorize = "denies"
    /\ wire.status = 401
    /\ prefetched.account # <<>>

\* A GET of an account came without a proxy context.
C35_WitnessNoContext ==
    /\ xpc = "responded"
    /\ xreq.valid
    /\ Route(xreq) = "AccountGetHandler"
    /\ ctx = "nil"
    /\ wire.status = 500

\* C36: every response body that is not handed to the caller is closed by
\* the time the method returns: the Head methods have closed the chosen
\* response's body, GetAccount and GetContainer have closed the listing
\* stream, and GetObject has closed the stream when it returns an error.
C36_BodiesClosed == FacadeReturned => cstream # "open"

\* The part of C36 that is not about the listings: the Head methods and
\* GetObject leave no body open.
C36_HeadAndObjectClosed ==
    FacadeReturned /\ cmethod \notin Listings =>
        /\ cstream # "open"
        /\ cstream = "caller" => cret.err = NoError

====
